---- MODULE Spec2Model ----
(***************************************************************************)
(* Connect3 newsletter recommendation core.                                *)
(*                                                                         *)
(* Part 1: python_app.vector_index.VectorIndex (NumPy-backed index).       *)
(* Part 2: the tables, python_app.scoring and python_app.embeddings.       *)
(* Part 3: python_app.recommender and python_app.pgvector_search.          *)
(* Part 4: python_app.scoring, rank_events_for_user.                       *)
(* Part 5: python_app.openai_client, with_retry.                           *)
(* Part 6: api.feedback, is_rate_limited.                                  *)
(* Part 7: api.unsubscribe, api.subscribe and the newsletter runs.         *)
(* Part 8: api.feedback, the handler of a feedback click.                  *)
(* Part 9: scripts_py.two_phase_newsletter, the Phase 2 newsletter.        *)
(* Specifications: Spec drives a VectorIndex on its own, SpecPrefs the     *)
(* preference computations over every small interaction history, SpecRec   *)
(* a TwoTowerRecommender over small histories and failing collaborators,   *)
(* SpecRules _apply_business_rules on its own, SpecScoring the scorer,     *)
(* SpecRetry with_retry step by step, SpecRate concurrent is_rate_limited  *)
(* calls, SpecMail the unsubscribe and newsletter requests, SpecFloat a    *)
(* VectorIndex fed nan and inf, SpecLoad load_event_index over every small *)
(* store of embeddings, SpecFeedback two interleaved feedback requests,    *)
(* SpecPhase2 send_phase2_preference_newsletter.                           *)
(*                                                                         *)
(* Part 1.                                                                 *)
(*                                                                         *)
(* Numbers.  Vector components are small integers.  A cosine similarity    *)
(* dot/(|q||v|) is carried exactly as the pair <<n, d>> with               *)
(*    n = sgn(dot) * dot^2    and    d = |q|^2 * |v|^2   (d > 0),          *)
(* the image of the cosine under the strictly increasing map               *)
(* x |-> sgn(x) * x^2, so every comparison of two similarities is the      *)
(* comparison the code makes.  The norm array holds squared norms.         *)
(* The score -inf that search() writes over excluded rows is NegInf.       *)
(* The floats nan, inf and -inf are carried as the codes NaN, Inf and      *)
(* -Inf, three integers no finite value of the model comes near; FMul and  *)
(* FAdd are the IEEE product and sum on them.  A similarity that is nan is *)
(* NaNScore, one that is +inf is PosInf.                                   *)
(* Rows are numbered from 1; id_to_idx is a function on the stored keys.  *)
(* The matrix None of an empty index is the empty sequence.                *)
(***************************************************************************)
EXTENDS Integers, Sequences, FiniteSets, TLC

\* ---------------------------------------------------------------- bounds
MaxSize == 2        \* rows an index may hold in the explored runs

\* ------------------------------------------------------------ input sets
DIM == 2            \* the dimension the index is constructed with
Ids == {"a", "b"}
NoMeta == "None"
Metas == {NoMeta, "m1"}
GoodVecs == {<<1, 0>>, <<1, 1>>}
BadVecs == {<<1>>, <<1, 0, 0>>}
Vecs == GoodVecs \cup BadVecs
Queries == {<<0, 0>>, <<1, 0>>, <<1>>}
TopKs == 0..MaxSize

VARIABLES ids, vectors, norms, metadata, id_to_idx,   \* the VectorIndex fields
          interactions,        \* table interactions, rows in insertion order
          user_preferences,    \* table user_preferences: user -> row or NoRow
          profiles,            \* table profiles: the ids that have a row
          events_cache,        \* TwoTowerRecommender._events_cache: id -> events row
          use_pgvector,        \* TwoTowerRecommender._use_pgvector
          config,              \* TwoTowerRecommender.config
          args,                \* the arguments of a call about to be made
          retry,               \* with_retry: where the call stands
          clock,               \* time.time(), in seconds
          rate_limit_store,    \* api/feedback._rate_limit_store: user id -> timestamps
          callers,             \* the request threads of api/feedback: where each stands
          admitted,            \* the timestamps of the calls is_rate_limited admitted
          users_table,         \* table users: id -> is_unsubscribed
          subscribers_table,   \* table subscribers: id -> is_unsubscribed
          profiles_unsub,      \* table profiles: the ids with is_unsubscribed set
          opted_out,           \* the users whose last completed request unsubscribed them
          UNSUBSCRIBE_TOKEN_SECRET,  \* api/unsubscribe: the secret of the environment, "" if unset
          last                 \* the last call made and what it returned

ixvars == <<ids, vectors, norms, metadata, id_to_idx>>
dbvars == <<interactions, user_preferences, profiles>>
recvars == <<events_cache, use_pgvector, config>>
ratevars == <<clock, rate_limit_store, callers, admitted>>
mailvars ==
  <<users_table, subscribers_table, profiles_unsub, opted_out, UNSUBSCRIBE_TOKEN_SECRET>>
restvars == <<args, retry, ratevars, mailvars>>
vars ==
  <<ids, vectors, norms, metadata, id_to_idx, interactions, user_preferences, profiles,
    events_cache, use_pgvector, config, args, retry, clock, rate_limit_store, callers,
    admitted, users_table, subscribers_table, profiles_unsub, opted_out,
    UNSUBSCRIBE_TOKEN_SECRET, last>>

\* ------------------------------------------------------------- arithmetic
Sgn(x) == IF x > 0 THEN 1 ELSE IF x < 0 THEN -1 ELSE 0

\* float('inf') and float('nan')
Inf == 1000000
NaN == 1000001

Finite(x) == x \notin {NaN, Inf, -Inf}

\* a * b on floats: nan is contagious, inf * 0 is nan
FMul(a, b) ==
  IF a = NaN \/ b = NaN THEN NaN
  ELSE IF Finite(a) /\ Finite(b) THEN a * b
  ELSE IF a = 0 \/ b = 0 THEN NaN
  ELSE Sgn(a) * Sgn(b) * Inf

\* a + b on floats: inf + -inf is nan
FAdd(a, b) ==
  IF a = NaN \/ b = NaN THEN NaN
  ELSE IF Finite(a) /\ Finite(b) THEN a + b
  ELSE IF Finite(a) THEN b
  ELSE IF Finite(b) \/ a = b THEN a
  ELSE NaN

RECURSIVE DotFrom(_, _, _)
DotFrom(u, v, i) ==
  IF i > Len(u) \/ i > Len(v) THEN 0
  ELSE FAdd(FMul(u[i], v[i]), DotFrom(u, v, i + 1))

Dot(u, v) == DotFrom(u, v, 1)

\* np.linalg.norm(v), squared
NormSq(v) == Dot(v, v)

NegInf == <<"-inf">>
PosInf == <<"inf">>
NaNScore == <<"nan">>

\* s1 >= s2 in the order np.argsort and np.argpartition sort by: nan is
\* sorted to the end, above inf; NegInf is below every number
ScoreGeq(s1, s2) ==
  IF s1 = NaNScore THEN TRUE
  ELSE IF s2 = NaNScore THEN FALSE
  ELSE IF s1 = PosInf THEN TRUE
  ELSE IF s2 = PosInf THEN FALSE
  ELSE IF s2 = NegInf THEN TRUE
  ELSE IF s1 = NegInf THEN FALSE
  ELSE s1[1] * s2[2] >= s2[1] * s1[2]

ScoreEq(s1, s2) == ScoreGeq(s1, s2) /\ ScoreGeq(s2, s1)

\* dot_products / (query_norm * valid_norms), one row; nan > 0 is False, so
\* a nan norm is replaced by 1.0 as a zero norm is
Cosine(q, v, nsq) ==
  LET dot == Dot(v, q)
      valid == IF nsq # NaN /\ nsq > 0 THEN nsq ELSE 1
      den == FMul(NormSq(q), valid)
  IN IF dot = NaN \/ den = NaN THEN NaNScore
     ELSE IF ~Finite(dot) THEN (IF ~Finite(den) THEN NaNScore
                                ELSE IF dot = Inf THEN PosInf ELSE NegInf)
     ELSE IF ~Finite(den) THEN <<0, 1>>
     ELSE <<Sgn(dot) * dot * dot, den>>

\* ------------------------------------------------------------ sequences
RemoveAt(s, i) == [j \in 1..(Len(s) - 1) |-> IF j < i THEN s[j] ELSE s[j + 1]]

Min(a, b) == IF a < b THEN a ELSE b

\* all orderings of the members of S
Perms(S) ==
  {f \in [1..Cardinality(S) -> S] : \A i, j \in 1..Cardinality(S) : i # j => f[i] # f[j]}

Range(s) == {s[i] : i \in 1..Len(s)}

\* --------------------------------------------------------------- __init__
NoOp == [op |-> "init"]

\* no call is about to be made
NoArgs == [op |-> "none"]

\* an empty dict
EmptyMap == [k \in {} |-> 0]

\* map[k] = v
Put(map, k, v) == [x \in DOMAIN map \cup {k} |-> IF x = k THEN v ELSE map[x]]

\* the fields of a VectorIndex as one value
Index ==
  [ids |-> ids, vectors |-> vectors, norms |-> norms, metadata |-> metadata,
   id_to_idx |-> id_to_idx]

EmptyIndex ==
  [ids |-> <<>>, vectors |-> <<>>, norms |-> <<>>, metadata |-> <<>>, id_to_idx |-> EmptyMap]

\* the fields take the values of ix
SetIndex(ix) ==
  /\ ids' = ix.ids
  /\ vectors' = ix.vectors
  /\ norms' = ix.norms
  /\ metadata' = ix.metadata
  /\ id_to_idx' = ix.id_to_idx

IndexInit ==
  /\ ids = <<>>
  /\ vectors = <<>>
  /\ norms = <<>>
  /\ metadata = <<>>
  /\ id_to_idx = EmptyMap
  /\ last = NoOp

\* size()
size(ix) == Len(ix.ids)

\* ------------------------------------------------------------------- add
\* the body of add after the length check: update in place or append
store(ix, vector_id, vector, meta) ==
  IF vector_id \in DOMAIN ix.id_to_idx
  THEN LET idx == ix.id_to_idx[vector_id]
       IN [ix EXCEPT !.vectors[idx] = vector,
                     !.norms[idx] = NormSq(vector),
                     !.metadata[idx] = meta]
  ELSE [ids |-> Append(ix.ids, vector_id),
        metadata |-> Append(ix.metadata, meta),
        id_to_idx |-> Put(ix.id_to_idx, vector_id, Len(ix.ids) + 1),
        vectors |-> Append(ix.vectors, vector),
        norms |-> Append(ix.norms, NormSq(vector))]

\* (mutation of add: the vector is cut or zero-padded to DIM and stored)
addResized(ix, vector_id, vector, meta) ==
  LET fit == [i \in 1..DIM |-> IF i <= Len(vector) THEN vector[i] ELSE 0]
  IN [raised |-> FALSE, index |-> store(ix, vector_id, fit, meta)]

\* add(vector_id, vector, metadata); a wrong length raises before any write
add(ix, vector_id, vector, meta) ==
  IF Len(vector) # DIM
  THEN [raised |-> TRUE, index |-> ix]
  ELSE [raised |-> FALSE, index |-> store(ix, vector_id, vector, meta)]

Add ==
  \E vector_id \in Ids, vector \in Vecs, meta \in Metas :
    /\ (vector_id \notin DOMAIN id_to_idx /\ Len(vector) = DIM) => Len(ids) < MaxSize
    /\ LET r == add(Index, vector_id, vector, meta)
       IN /\ SetIndex(r.index)
          /\ last' = [op |-> "add", id |-> vector_id, vector |-> vector, meta |-> meta,
                      raised |-> r.raised, existed |-> vector_id \in Range(ids),
                      sizeBefore |-> size(Index)]
          /\ UNCHANGED <<dbvars, recvars, restvars>>

\* ------------------------------------------------------------- add_batch
Entries == [id : Ids, vector : {<<1, 0>>, <<1>>}, metadata : {NoMeta}]

Batches == UNION {[1..n -> Entries] : n \in 0..MaxSize}

RECURSIVE BatchIdx(_, _, _, _)
\* for i, vid in enumerate(new_ids): self._id_to_idx[vid] = start_idx + i
BatchIdx(map, entries, start_idx, i) ==
  IF i > Len(entries) THEN map
  ELSE BatchIdx(Put(map, entries[i].id, start_idx + i), entries, start_idx, i + 1)

add_batch(ix, entries) ==
  IF entries = <<>>
  THEN [raised |-> FALSE, index |-> ix]
  ELSE IF \E i \in 1..Len(entries) : Len(entries[i].vector) # DIM
  THEN [raised |-> TRUE, index |-> ix]
  ELSE [raised |-> FALSE,
        index |->
          [ids |-> ix.ids \o [i \in 1..Len(entries) |-> entries[i].id],
           metadata |-> ix.metadata \o [i \in 1..Len(entries) |-> entries[i].metadata],
           id_to_idx |-> BatchIdx(ix.id_to_idx, entries, Len(ix.ids), 1),
           vectors |-> ix.vectors \o [i \in 1..Len(entries) |-> entries[i].vector],
           norms |-> ix.norms \o [i \in 1..Len(entries) |-> NormSq(entries[i].vector)]]]

AddBatch ==
  \E entries \in Batches :
    /\ Len(ids) + Len(entries) <= MaxSize
    /\ LET r == add_batch(Index, entries)
       IN /\ SetIndex(r.index)
          /\ last' = [op |-> "add_batch", raised |-> r.raised]
          /\ UNCHANGED <<dbvars, recvars, restvars>>

\* ---------------------------------------------------------------- remove
remove(ix, vector_id) ==
  IF vector_id \notin DOMAIN ix.id_to_idx
  THEN [found |-> FALSE, index |-> ix]
  ELSE LET idx == ix.id_to_idx[vector_id]
       IN [found |-> TRUE,
           index |->
             [ids |-> RemoveAt(ix.ids, idx),
              metadata |-> RemoveAt(ix.metadata, idx),
              vectors |-> RemoveAt(ix.vectors, idx),
              norms |-> RemoveAt(ix.norms, idx),
              id_to_idx |-> [vid \in DOMAIN ix.id_to_idx \ {vector_id} |->
                               IF ix.id_to_idx[vid] > idx THEN ix.id_to_idx[vid] - 1
                               ELSE ix.id_to_idx[vid]]]]

Remove ==
  \E vector_id \in Ids :
    LET r == remove(Index, vector_id)
    IN /\ SetIndex(r.index)
       /\ last' = [op |-> "remove", id |-> vector_id, found |-> r.found]
       /\ UNCHANGED <<dbvars, recvars, restvars>>

\* ----------------------------------------------------------------- clear
clear(ix) == EmptyIndex

Clear ==
  /\ SetIndex(clear(Index))
  /\ last' = [op |-> "clear"]
  /\ UNCHANGED <<dbvars, recvars, restvars>>

\* ---------------------------------------------------------------- search
\* (mutation of Scores: the exclusion mask is not applied)
ScoresUnmasked(ix, query, exclude_ids) ==
  [i \in 1..Len(ix.ids) |-> Cosine(query, ix.vectors[i], ix.norms[i])]

\* scores = dot_products / (query_norm * valid_norms), then
\* scores = np.where(mask, scores, -np.inf) with mask[i] = ids[i] not in exclude_ids
Scores(ix, query, exclude_ids) ==
  [i \in 1..Len(ix.ids) |->
     IF ix.ids[i] \in exclude_ids THEN NegInf
     ELSE Cosine(query, ix.vectors[i], ix.norms[i])]

\* a sequence of rows in non-increasing order of score
SortedDesc(rows, scores) ==
  \A i, j \in 1..Len(rows) : i < j => ScoreGeq(scores[rows[i]], scores[rows[j]])

\* np.argpartition(scores, -top_k)[-top_k:]: some top_k rows none of which
\* scores below a row left out; for top_k = 0 the slice [-0:] is every row
Partitions(scores, top_k) ==
  IF top_k = 0 THEN {1..Len(scores)}
  ELSE {S \in SUBSET (1..Len(scores)) :
          /\ Cardinality(S) = top_k
          /\ \A i \in S, j \in (1..Len(scores)) \ S : ScoreGeq(scores[i], scores[j])}

\* top_indices: np.argsort gives no promise on the order of equal scores
TopIndices(scores, top_k) ==
  IF top_k >= Len(scores)
  THEN {rows \in Perms(1..Len(scores)) : SortedDesc(rows, scores)}
  ELSE UNION {{rows \in Perms(S) : SortedDesc(rows, scores)} : S \in Partitions(scores, top_k)}

RECURSIVE BuildResults(_, _, _, _, _, _)
\* the result loop: skip -inf rows, append, stop once len(results) >= top_k
BuildResults(ix, top_indices, scores, top_k, i, results) ==
  IF i > Len(top_indices) THEN results
  ELSE LET idx == top_indices[i]
       IN IF scores[idx] = NegInf
          THEN BuildResults(ix, top_indices, scores, top_k, i + 1, results)
          ELSE LET r == Append(results, [id |-> ix.ids[idx], score |-> scores[idx],
                                         metadata |-> ix.metadata[idx]])
               IN IF Len(r) >= top_k THEN r
                  ELSE BuildResults(ix, top_indices, scores, top_k, i + 1, r)

\* every list search(query, top_k, exclude_ids) can return (no dimension error)
search(ix, query, top_k, exclude_ids) ==
  IF ix.vectors = <<>> \/ Len(ix.ids) = 0 THEN {<<>>}
  ELSE IF NormSq(query) = 0 THEN {<<>>}
  ELSE LET scores == Scores(ix, query, exclude_ids)
       IN {BuildResults(ix, rows, scores, top_k, 1, <<>>) : rows \in TopIndices(scores, top_k)}

Search ==
  \E query \in Queries, top_k \in TopKs, exclude_ids \in SUBSET Ids :
    /\ UNCHANGED <<ixvars, dbvars, recvars, restvars>>
    /\ IF Len(query) # DIM
       THEN last' = [op |-> "search", query |-> query, top_k |-> top_k,
                     exclude_ids |-> exclude_ids, raised |-> TRUE, results |-> <<>>]
       ELSE \E results \in search(Index, query, top_k, exclude_ids) :
              last' = [op |-> "search", query |-> query, top_k |-> top_k,
                       exclude_ids |-> exclude_ids, raised |-> FALSE, results |-> results]

\* ------------------------------------------------ floats that are not finite
\* vectors as np.array(vector, dtype=np.float32) can hold them
FloatVecs == {<<1, 0>>, <<0, 1>>, <<NaN, 0>>, <<Inf, 0>>}

\* add with vectors that may hold nan or inf: no check stands in their way
AddFloat ==
  \E vector_id \in Ids, vector \in FloatVecs :
    /\ vector_id \notin DOMAIN id_to_idx => Len(ids) < MaxSize
    /\ LET r == add(Index, vector_id, vector, NoMeta)
       IN /\ SetIndex(r.index)
          /\ last' = [op |-> "add", id |-> vector_id, vector |-> vector, meta |-> NoMeta,
                      raised |-> r.raised, existed |-> vector_id \in Range(ids),
                      sizeBefore |-> size(Index)]
          /\ UNCHANGED <<dbvars, recvars, restvars>>

\* search with queries that may hold nan or inf
SearchFloat ==
  \E query \in FloatVecs, top_k \in TopKs, exclude_ids \in SUBSET Ids :
    /\ UNCHANGED <<ixvars, dbvars, recvars, restvars>>
    /\ \E results \in search(Index, query, top_k, exclude_ids) :
         last' = [op |-> "search", query |-> query, top_k |-> top_k,
                  exclude_ids |-> exclude_ids, raised |-> FALSE, results |-> results]



(***************************************************************************)
(* Part 2: the tables and the PreferenceModel (python_app.scoring,         *)
(* python_app.embeddings).                                                 *)
(*                                                                         *)
(* Numbers.  A base weight is counted in halves (like 2, click 1,          *)
(* dislike -1, anything else 0).  An interaction row carries its age in    *)
(* days at the time of the read; ages are whole half-lives, so             *)
(* exp(-ln2/30 * age) is exactly 1, 1/2, 1/4 and is counted in quarters.   *)
(* A rational is the pair <<n, d>>, d > 0, in lowest terms.  A user        *)
(* vector is [num, den]: the components num[i]/den.                        *)
(***************************************************************************)
MaxHistory == 2     \* rows of the interactions table in the explored runs

NUM_CATEGORIES == 13
DECAY_HALF_LIFE_DAYS == 30

CONNECT3_CATEGORIES ==
  <<"academic_workshops", "arts_music", "career_networking", "entrepreneurship",
    "environment_sustainability", "food_dining", "gaming_esports", "health_wellness",
    "social_cultural", "sports_fitness", "tech_innovation", "travel_adventure",
    "volunteering_community">>

Categories == Range(CONNECT3_CATEGORIES)

Users == {"u1", "u2"}
Events == {"e1", "e2", "e3", "e4"}
Actions == {"like", "click", "dislike", "view"}
Ages == {0, 30}
None == "NULL"

\* table event_embeddings: e1, e2 embedded in DIM components, e3 embedded by
\* a model of another width, e4 never embedded (no row)
event_embeddings ==
  << [event_id |-> "e1", embedding |-> <<1, 0>>, category |-> "tech_innovation"],
     [event_id |-> "e2", embedding |-> <<0, 1>>, category |-> "arts_music"],
     [event_id |-> "e3", embedding |-> <<1>>, category |-> "tech_innovation"] >>

\* rows the feedback endpoints can have written: u1's on the events with an
\* event_embeddings row in every action and age, one on e4, and one of u2's
InteractionRows ==
  [user_id : {"u1"}, event_id : Events \ {"e4"}, interaction_type : Actions, age : Ages]
    \cup {[user_id |-> "u1", event_id |-> "e4", interaction_type |-> "like", age |-> 0],
          [user_id |-> "u2", event_id |-> "e1", interaction_type |-> "like", age |-> 0]}

Histories == UNION {[1..n -> InteractionRows] : n \in 0..MaxHistory}

\* ----------------------------------------------------------- rationals
RECURSIVE Gcd(_, _)
Gcd(a, b) == IF b = 0 THEN a ELSE Gcd(b, a % b)

Abs(x) == IF x < 0 THEN -x ELSE x

Rat(n, d) == LET g == Gcd(Abs(n), d) IN <<n \div g, d \div g>>

RAdd(x, y) == Rat(x[1] * y[2] + y[1] * x[2], x[2] * y[2])

RDiv(x, y) == Rat(x[1] * y[2], x[2] * y[1])      \* y > 0

RLeq(x, y) == x[1] * y[2] <= y[1] * x[2]

RZero == <<0, 1>>
ROne == <<1, 1>>

\* DEFAULT_CATEGORY_SCORE = 1.0 / NUM_CATEGORIES
DEFAULT_CATEGORY_SCORE == Rat(1, NUM_CATEGORIES)

\* ------------------------------------------------------------- selects
\* supabase.table("interactions").select(...).eq(column, value): the rows whose
\* column holds value, in table order
\* row.get(column): None for a column the row does not carry
Column(row, column) == IF column \in DOMAIN row THEN row[column] ELSE None

SelectEq(table, column, value) == SelectSeq(table, LAMBDA row : Column(row, column) = value)

\* base_weights.get(interaction_type, 0.0), in halves
BASE_DEN == 2
base_weights(interaction_type) ==
  CASE interaction_type = "like" -> 2
    [] interaction_type = "click" -> 1
    [] interaction_type = "dislike" -> -1
    [] OTHER -> 0

\* math.exp(-decay_lambda * days_old) with decay_lambda = ln 2 / half-life, in quarters
DECAY_DEN == 4
time_decay(age) ==
  CASE age = 0 -> 4
    [] age = DECAY_HALF_LIFE_DAYS -> 2
    [] age = 2 * DECAY_HALF_LIFE_DAYS -> 1

\* event_categories = {e["event_id"]: e.get("category") ...}.get(event_id)
event_categories(event_id) ==
  IF \E i \in 1..Len(event_embeddings) : event_embeddings[i].event_id = event_id
  THEN LET i == CHOOSE i \in 1..Len(event_embeddings) :
                  /\ event_embeddings[i].event_id = event_id
                  /\ \A j \in (i + 1)..Len(event_embeddings) :
                       event_embeddings[j].event_id # event_id
       IN event_embeddings[i].category
  ELSE None

\* ------------------------------------- _compute_time_decayed_preferences
RECURSIVE Accumulate(_, _, _)
\* the loop over the interactions: acc[cat] = <<category_scores, category_weights>>
\* (scores in eighths, weights in quarters); a category not yet seen is absent
Accumulate(rows, i, acc) ==
  IF i > Len(rows) THEN acc
  ELSE LET category == event_categories(rows[i].event_id)
       IN IF category = None THEN Accumulate(rows, i + 1, acc)
          ELSE LET decay == time_decay(rows[i].age)
                   weighted_score == base_weights(rows[i].interaction_type) * decay
                   old == IF category \in DOMAIN acc THEN acc[category] ELSE <<0, 0>>
               IN Accumulate(rows, i + 1,
                    [c \in DOMAIN acc \cup {category} |->
                       IF c = category THEN <<old[1] + weighted_score, old[2] + Abs(decay)>>
                       ELSE acc[c]])

\* max(0.0, min(1.0, x))
Clamp01(x) == IF RLeq(x, RZero) THEN RZero ELSE IF RLeq(ROne, x) THEN ROne ELSE x

\* result[cat] for each of the 13 categories, before the rescaling
Normalized(acc) ==
  [cat \in Categories |->
     IF cat \in DOMAIN acc
     THEN IF acc[cat][2] > 0
          THEN Clamp01(Rat(acc[cat][1] + BASE_DEN * acc[cat][2], 2 * BASE_DEN * acc[cat][2]))
          ELSE DEFAULT_CATEGORY_SCORE
     ELSE DEFAULT_CATEGORY_SCORE]

RECURSIVE SumFrom(_, _)
\* sum(result.values())
SumFrom(result, i) ==
  IF i > Len(CONNECT3_CATEGORIES) THEN RZero
  ELSE RAdd(result[CONNECT3_CATEGORIES[i]], SumFrom(result, i + 1))

\* (mutation of Rescale: the distribution is returned without the division)
RescaleSkipped(result) == result

\* total = sum(result.values()); the uniform row if total <= 0, else result/total
Rescale(result) ==
  LET total == SumFrom(result, 1)
  IN IF RLeq(total, RZero)
     THEN [cat \in Categories |-> DEFAULT_CATEGORY_SCORE]
     ELSE [cat \in Categories |-> RDiv(result[cat], total)]

EmptyDict == [c \in {} |-> RZero]

compute_time_decayed_preferences(user_id) ==
  LET rows == SelectEq(interactions, "user_id", user_id)
  IN IF rows = <<>> THEN EmptyDict
     ELSE Rescale(Normalized(Accumulate(rows, 1, EmptyDict)))

ComputePreferences ==
  \E user_id \in Users :
    /\ last' = [op |-> "prefs", user_id |-> user_id,
                result |-> compute_time_decayed_preferences(user_id)]
    /\ UNCHANGED <<ixvars, dbvars, recvars, restvars>>

\* ------------------------------------------------------------ embed_user
\* stored scores are counted in 1/1300, in which 0.05, 0.1, 0.6 and 1/13 are whole
SCORE_SCALE == 1300

\* a user_preferences row: category -> score in 1/1300, Unset for a column
\* that holds no number; NoRow stands for the user having no row
Unset == -1
NoRow == [exists |-> FALSE, scores |-> [cat \in Categories |-> Unset]]
LowRow == [exists |-> TRUE,
           scores |-> [cat \in Categories |-> IF cat = "tech_innovation" THEN 780 ELSE Unset]]
TechRow == [exists |-> TRUE,
            scores |-> [cat \in Categories |-> IF cat = "tech_innovation" THEN 910 ELSE Unset]]
PreferenceTables == {[u \in Users |-> IF u = "u1" THEN r ELSE NoRow] : r \in {NoRow, LowRow, TechRow}}

\* the keys of pref_mapping, in its order
pref_mapping ==
  <<"tech_innovation", "career_networking", "academic_workshops", "social_cultural",
    "entrepreneurship", "sports_fitness", "arts_music", "volunteering_community",
    "food_dining", "travel_adventure", "health_wellness", "environment_sustainability",
    "gaming_esports">>

GenericText == [kind |-> "general university events", interests |-> <<>>]

\* (mutation of pref_text: a score of exactly 0.6 counts as an interest)
pref_textInclusive(prefs) ==
  IF prefs = NoRow THEN GenericText
  ELSE LET interests == SelectSeq(pref_mapping, LAMBDA key : prefs.scores[key] >= 780)
       IN IF interests # <<>> THEN [kind |-> "interested in", interests |-> interests]
          ELSE GenericText

\* the cold-start text: the descriptions of the categories scored above 0.6
pref_text(prefs) ==
  IF prefs = NoRow THEN GenericText
  ELSE LET interests == SelectSeq(pref_mapping,
                                    LAMBDA key : prefs.scores[key] # Unset /\ prefs.scores[key] > 780)
       IN IF interests # <<>> THEN [kind |-> "interested in", interests |-> interests]
          ELSE GenericText

\* the Embedding Provider: some vector of DIM components fixed by the text
client_embeddings_create(text) ==
  IF text = GenericText THEN <<1, 1>> ELSE <<0, 1>>

\* generate_embedding(text) for a non-empty text
generate_embedding(text) == [num |-> client_embeddings_create(text), den |-> 1]

\* emb_map.get(event_id): the parsed embedding of the event's row; the None of
\* an event without a row is the empty list (both fail "not emb_vec")
emb_map(event_id) ==
  IF \E i \in 1..Len(event_embeddings) : event_embeddings[i].event_id = event_id
  THEN LET i == CHOOSE i \in 1..Len(event_embeddings) :
                  /\ event_embeddings[i].event_id = event_id
                  /\ \A j \in (i + 1)..Len(event_embeddings) :
                       event_embeddings[j].event_id # event_id
       IN event_embeddings[i].embedding
  ELSE <<>>

RECURSIVE WeightedSumZeroFilled(_, _, _, _)
\* (mutation of WeightedSum: an event without a usable embedding counts as the
\* zero vector, its weight still added to the total)
WeightedSumZeroFilled(rows, i, vec, total) ==
  IF i > Len(rows) THEN <<vec, total>>
  ELSE LET emb_vec == emb_map(rows[i].event_id)
           final_weight == base_weights(rows[i].interaction_type) * time_decay(rows[i].age)
       IN IF emb_vec = <<>> \/ Len(emb_vec) # DIM
          THEN WeightedSumZeroFilled(rows, i + 1, vec, total + Abs(final_weight))
          ELSE WeightedSumZeroFilled(rows, i + 1,
                                     [k \in 1..DIM |-> vec[k] + emb_vec[k] * final_weight],
                                     total + Abs(final_weight))

RECURSIVE WeightedSum(_, _, _, _)
\* the loop over the interactions: <<vec, total>>, weights in eighths
WeightedSum(rows, i, vec, total) ==
  IF i > Len(rows) THEN <<vec, total>>
  ELSE LET emb_vec == emb_map(rows[i].event_id)
       IN IF emb_vec = <<>> \/ Len(emb_vec) # DIM
          THEN WeightedSum(rows, i + 1, vec, total)
          ELSE LET final_weight == base_weights(rows[i].interaction_type) * time_decay(rows[i].age)
               IN WeightedSum(rows, i + 1,
                              [k \in 1..DIM |-> vec[k] + emb_vec[k] * final_weight],
                              total + Abs(final_weight))

ZeroVec == [k \in 1..DIM |-> 0]

\* (mutation of WarmReturn: the history average is mixed with the preference vector)
WarmReturnBlended(vec, total, prefs) ==
  [path |-> "warm",
   vector |-> [num |-> [k \in 1..DIM |-> vec[k] + generate_embedding(pref_text(prefs)).num[k]],
               den |-> IF total # 0 THEN total ELSE 1],
   calls |-> <<"interactions", "event_embeddings", "user_preferences", "provider">>]

\* return [v / total for v in vec] if total else vec
WarmReturn(vec, total, prefs) ==
  [path |-> "warm",
   vector |-> IF total # 0 THEN [num |-> vec, den |-> total] ELSE [num |-> vec, den |-> 1],
   calls |-> <<"interactions", "event_embeddings">>]

\* the cold-start tail: read the preference row, embed its text
ColdReturn(prefs) ==
  [path |-> "cold",
   vector |-> generate_embedding(pref_text(prefs)),
   calls |-> <<"interactions", "user_preferences", "provider">>]

\* embed_user(user_id): the path taken, the vector returned, the collaborators called
embed_user(user_id) ==
  LET rows == SelectEq(interactions, "user_id", user_id)
  IN IF rows # <<>>
     THEN LET acc == WeightedSum(rows, 1, ZeroVec, 0)
          IN WarmReturn(acc[1], acc[2], user_preferences[user_id])
     ELSE ColdReturn(user_preferences[user_id])

EmbedUser ==
  \E user_id \in Users :
    /\ last' = [op |-> "embed_user", user_id |-> user_id, result |-> embed_user(user_id)]
    /\ UNCHANGED <<ixvars, dbvars, recvars, restvars>>

(***************************************************************************)
(* Part 3: python_app.recommender.TwoTowerRecommender and                  *)
(* python_app.pgvector_search.                                             *)
(*                                                                         *)
(* Numbers.  _apply_business_rules works in fixed point: a similarity and  *)
(* a recency score in thousandths (rounded down), the config weights in    *)
(* tenths, a final score in ten-thousandths.  An event date is the whole   *)
(* number of days (event_date - now).days, negative in the past, held as   *)
(* <<days>>; <<>> is an event with no date.  The user vector is handed to  *)
(* the searches by its numerator: a cosine does not change with a          *)
(* positive scale.                                                         *)
(*                                                                         *)
(* Collaborator failures.  Each call of get_recommendations is made with   *)
(* a fault: the table (or the rpc) whose requests come back with an error  *)
(* during that call, if any is issued.                                     *)
(***************************************************************************)
MaxRecHistory == 1  \* rows of the interactions table in the recommender runs
MaxBatch == 2       \* user ids in one batch

\* RecommendationConfig defaults; the weights and the penalty in tenths
DefaultConfig ==
  [top_k |-> 10, candidate_multiplier |-> 3, recency_weight |-> 3,
   similarity_weight |-> 7, diversity_penalty |-> 1, max_days_old |-> 365]

MaxCandidates == 3  \* candidates in one call of _apply_business_rules

\* the events argument of _apply_business_rules: three events alike in date
\* and category, one without a date, one of another category and older
RuleEvents ==
  [id \in {"c1", "c2", "c3", "c4", "c5"} |->
     [id |-> id,
      event_date |-> IF id = "c4" THEN <<>> ELSE IF id = "c5" THEN <<-73>> ELSE <<0>>,
      category |-> IF id = "c5" THEN "arts_music" ELSE "tech_innovation"]]

\* candidate["score"] of a search hit: cosine 1 or 1/2
RuleScores == {<<1, 1>>, <<1, 4>>}

\* the candidates argument: hits with distinct ids, "c6" unknown to events
RuleCandidates ==
  {c \in UNION {[1..n -> [id : DOMAIN RuleEvents \cup {"c6"}, score : RuleScores]] :
                  n \in 0..MaxCandidates} :
     \A i, j \in 1..Len(c) : c[i].id = c[j].id => i = j}

\* the configurations of the _apply_business_rules runs
RuleConfigs ==
  {DefaultConfig, [DefaultConfig EXCEPT !.diversity_penalty = 0],
   [DefaultConfig EXCEPT !.diversity_penalty = 3, !.max_days_old = 30]}

\* the configurations a recommender is constructed with in the recommender runs
RecConfigs == {DefaultConfig, [DefaultConfig EXCEPT !.top_k = 1]}

\* table events
events ==
  << [id |-> "e1", event_date |-> <<0>>, category |-> "tech_innovation"],
     [id |-> "e2", event_date |-> <<-73>>, category |-> "arts_music"],
     [id |-> "e3", event_date |-> <<>>, category |-> "tech_innovation"],
     [id |-> "e5", event_date |-> <<10>>, category |-> "arts_music"],
     [id |-> "e6", event_date |-> <<40>>, category |-> None] >>

RecRows ==
  { [user_id |-> "u1", event_id |-> "e1", interaction_type |-> "like", age |-> 0],
    [user_id |-> "u1", event_id |-> "e2", interaction_type |-> "dislike", age |-> 0],
    [user_id |-> "u1", event_id |-> "e4", interaction_type |-> "like", age |-> 0],
    [user_id |-> "u2", event_id |-> "e1", interaction_type |-> "click", age |-> 30] }

RecHistories == UNION {[1..n -> RecRows] : n \in 0..MaxRecHistory}

Faults == {"none", "interactions", "event_embeddings", "events", "rpc"}

\* the recommender's own state as one value
State == [index |-> Index, events_cache |-> events_cache]

Raise(st) == [raised |-> TRUE, recs |-> <<>>, st |-> st]

Return(st, recs) == [raised |-> FALSE, recs |-> recs, st |-> st]

\* ------------------------------------------------------- load_event_index
MaxRows == 2        \* rows of event_embeddings in the load runs

\* json.loads(text) on the texts a stored embedding takes in the load runs
JsonLoads(text) ==
  CASE text = "[0, 1]" -> [raised |-> FALSE, is_list |-> TRUE, value |-> <<0, 1>>]
    [] text = "[1]" -> [raised |-> FALSE, is_list |-> TRUE, value |-> <<1>>]
    [] text = "{}" -> [raised |-> FALSE, is_list |-> FALSE, value |-> <<>>]
    [] OTHER -> [raised |-> TRUE, is_list |-> FALSE, value |-> <<>>]

\* the rows of the load runs: the column embedding holds a list (stored_as
\* "list", the value in embedding), a str (stored_as "str", the characters
\* in text) or None
RawRows ==
  { [event_id |-> "e1", stored_as |-> "list", embedding |-> <<1, 0>>, text |-> "",
     category |-> "tech_innovation"],
    [event_id |-> "e2", stored_as |-> "str", embedding |-> <<>>, text |-> "[0, 1]",
     category |-> "arts_music"],
    [event_id |-> "e3", stored_as |-> "list", embedding |-> <<1>>, text |-> "",
     category |-> "tech_innovation"],
    [event_id |-> "e4", stored_as |-> "str", embedding |-> <<>>, text |-> "[1]",
     category |-> "tech_innovation"],
    [event_id |-> "e5", stored_as |-> "str", embedding |-> <<>>, text |-> "[0, 1",
     category |-> "arts_music"],
    [event_id |-> "e6", stored_as |-> "str", embedding |-> <<>>, text |-> "{}",
     category |-> "arts_music"],
    [event_id |-> "e7", stored_as |-> "none", embedding |-> <<>>, text |-> "",
     category |-> "arts_music"] }

\* what the select of event_embeddings answers with in the load runs
Stores ==
  {rows \in UNION {[1..n -> RawRows] : n \in 0..MaxRows} :
     \A i, j \in 1..Len(rows) : rows[i] = rows[j] => i = j}

\* the table as the select returns it: the rows held in args in the load
\* runs, the table event_embeddings otherwise
StoredEmbeddings == IF args.op = "event_embeddings" THEN args.rows ELSE event_embeddings

\* emb after the isinstance and json.loads steps; skip: the row is passed over
ParsedEmbedding(row) ==
  IF "stored_as" \notin DOMAIN row THEN [skip |-> FALSE, value |-> row.embedding]
  ELSE IF row.stored_as = "list" THEN [skip |-> FALSE, value |-> row.embedding]
  ELSE IF row.stored_as = "str"
  THEN LET parsed == JsonLoads(row.text)
       IN [skip |-> parsed.raised \/ ~parsed.is_list, value |-> parsed.value]
  ELSE [skip |-> TRUE, value |-> <<>>]

RECURSIVE LoadRows(_, _, _)
\* the loop over the rows: a row that is no list of DIM components is skipped
LoadRows(rows, i, ix) ==
  IF i > Len(rows) THEN ix
  ELSE LET emb == ParsedEmbedding(rows[i])
       IN IF emb.skip \/ Len(emb.value) # DIM THEN LoadRows(rows, i + 1, ix)
          ELSE LoadRows(rows, i + 1,
                        add(ix, rows[i].event_id, emb.value,
                            [category |-> Column(rows[i], "category"),
                             created_at |-> Column(rows[i], "created_at")]).index)

\* (mutation of load_event_index: the index is not cleared before the loop)
load_event_indexKeeping(ix, failed) ==
  IF failed THEN [raised |-> TRUE, index |-> ix]
  ELSE [raised |-> FALSE, index |-> LoadRows(StoredEmbeddings, 1, ix)]

\* load_event_index(); failed: the select of event_embeddings comes back with an error
load_event_index(ix, failed) ==
  IF failed THEN [raised |-> TRUE, index |-> ix]
  ELSE [raised |-> FALSE, index |-> LoadRows(StoredEmbeddings, 1, clear(ix))]

LoadEventIndex ==
  \E failed \in BOOLEAN :
    LET r == load_event_index(Index, failed)
    IN /\ SetIndex(r.index)
       /\ last' = [op |-> "load_event_index", raised |-> r.raised,
                   sizeBefore |-> size(Index)]
       /\ UNCHANGED <<dbvars, recvars, restvars>>

\* -------------------------------------------------- search_similar_events
\* answers of the database function match_events: no row, or the two
\* embedded events, nearest first
RpcAnswers ==
  { <<>>,
    << [event_id |-> "e1", category |-> "tech_innovation", similarity |-> <<1, 1>>],
       [event_id |-> "e2", category |-> "arts_music", similarity |-> <<1, 4>>] >> }

\* response.data of supabase.rpc('match_events', ...): at most match_count rows
RpcData(match_count) == {SubSeq(d, 1, Min(match_count, Len(d))) : d \in RpcAnswers}

RECURSIVE FilterRows(_, _, _, _, _)
\* the loop over response.data: drop excluded ids, stop at top_k results
FilterRows(data, top_k, exclude_ids, i, results) ==
  IF i > Len(data) THEN results
  ELSE IF data[i].event_id \notin exclude_ids
  THEN LET r == Append(results,
                       [id |-> data[i].event_id, event_id |-> data[i].event_id,
                        category |-> data[i].category, score |-> data[i].similarity,
                        metadata |-> [category |-> data[i].category]])
       IN IF Len(r) >= top_k THEN r
          ELSE FilterRows(data, top_k, exclude_ids, i + 1, r)
  ELSE FilterRows(data, top_k, exclude_ids, i + 1, results)

\* every list search_similar_events can return; failed: the rpc raises
search_similar_events(query_embedding, top_k, exclude_ids, failed) ==
  IF failed THEN {<<>>}
  ELSE {IF data = <<>> THEN <<>> ELSE FilterRows(data, top_k, exclude_ids, 1, <<>>) :
          data \in RpcData(top_k + Cardinality(exclude_ids))}

\* ---------------------------------------------- _load_events_from_supabase
\* supabase.table("events").select("*").in_("id", batch): the rows into the cache
CacheRows(cache, batch) ==
  [id \in DOMAIN cache \cup {events[j].id : j \in {j \in 1..Len(events) : events[j].id \in batch}} |->
     IF \E j \in 1..Len(events) : events[j].id = id /\ id \in batch
     THEN events[CHOOSE j \in 1..Len(events) : events[j].id = id]
     ELSE cache[id]]

\* _load_events_from_supabase(event_ids); failed: the select of events errors
load_events_from_supabase(cache, event_ids, failed) ==
  LET missing_ids == {event_ids[i] : i \in 1..Len(event_ids)} \ DOMAIN cache
  IN IF missing_ids = {} THEN [raised |-> FALSE, cache |-> cache]
     ELSE IF failed THEN [raised |-> TRUE, cache |-> cache]
     ELSE [raised |-> FALSE, cache |-> CacheRows(cache, missing_ids)]

\* ---------------------------------------------------- _apply_business_rules
RECURSIVE IsqrtIn(_, _, _)
\* the r in lo..hi with r^2 <= n < (r+1)^2, by bisection
IsqrtIn(n, lo, hi) ==
  IF lo = hi THEN lo
  ELSE LET mid == (lo + hi + 1) \div 2
       IN IF mid * mid <= n THEN IsqrtIn(n, mid, hi) ELSE IsqrtIn(n, lo, mid - 1)

\* the integer square root of n, 0 <= n <= 10^6
Isqrt(n) == IsqrtIn(n, 0, 1000)

\* float(candidate["score"]) in thousandths
Milli(score) == Sgn(score[1]) * Isqrt((1000000 * Abs(score[1])) \div score[2])

Max(a, b) == IF a > b THEN a ELSE b

\* results.sort(key=final_score, reverse=True) is stable: r goes after every
\* row already placed whose final score is not below its own
InsertDesc(sorted, r) ==
  LET k == Cardinality({j \in 1..Len(sorted) : sorted[j].final_score >= r.final_score})
  IN [j \in 1..(Len(sorted) + 1) |->
        IF j <= k THEN sorted[j] ELSE IF j = k + 1 THEN r ELSE sorted[j - 1]]

\* (mutation of SortDesc: the results stay in the order of the candidates)
SortDescAsAppended(results, i, sorted) == results

RECURSIVE SortDesc(_, _, _)
SortDesc(results, i, sorted) ==
  IF i > Len(results) THEN sorted
  ELSE SortDesc(results, i + 1, InsertDesc(sorted, results[i]))

RECURSIVE RulesLoopCountingDropped(_, _, _, _, _)
\* (mutation of RulesLoop: a candidate dropped for its date still counts
\* towards its category)
RulesLoopCountingDropped(candidates, event_map, i, category_counts, results) ==
  IF i > Len(candidates) THEN results
  ELSE LET event_id == candidates[i].id
       IN IF event_id \notin DOMAIN event_map
          THEN RulesLoopCountingDropped(candidates, event_map, i + 1, category_counts, results)
          ELSE LET event == event_map[event_id]
               IN IF event.event_date = <<>>
                  THEN RulesLoopCountingDropped(
                         candidates, event_map, i + 1,
                         Put(category_counts, event.category,
                             (IF event.category \in DOMAIN category_counts
                              THEN category_counts[event.category] ELSE 0) + 1),
                         results)
                  ELSE LET days_old == Abs(event.event_date[1])
                       IN IF days_old > config.max_days_old
                          THEN RulesLoopCountingDropped(candidates, event_map, i + 1, category_counts, results)
                          ELSE LET recency_score ==
                                     Max(0, 1000 - (1000 * days_old) \div config.max_days_old)
                                   category == IF event.category # None THEN event.category
                                               ELSE "unknown"
                                   seen == IF category \in DOMAIN category_counts
                                           THEN category_counts[category] ELSE 0
                                   final_score ==
                                     Milli(candidates[i].score) * config.similarity_weight
                                       + recency_score * config.recency_weight
                                       - seen * config.diversity_penalty * 1000
                               IN RulesLoopCountingDropped(candidates, event_map, i + 1,
                                            Put(category_counts, category, seen + 1),
                                            Append(results,
                                                   [event_id |-> event_id,
                                                    category |-> event.category,
                                                    similarity_score |-> candidates[i].score,
                                                    recency_score |-> recency_score,
                                                    final_score |-> final_score]))

RECURSIVE RulesLoop(_, _, _, _, _)
\* the loop over the candidates
RulesLoop(candidates, event_map, i, category_counts, results) ==
  IF i > Len(candidates) THEN results
  ELSE LET event_id == candidates[i].id
       IN IF event_id \notin DOMAIN event_map
          THEN RulesLoop(candidates, event_map, i + 1, category_counts, results)
          ELSE LET event == event_map[event_id]
               IN IF event.event_date = <<>>
                  THEN RulesLoop(candidates, event_map, i + 1, category_counts, results)
                  ELSE LET days_old == Abs(event.event_date[1])
                       IN IF days_old > config.max_days_old
                          THEN RulesLoop(candidates, event_map, i + 1, category_counts, results)
                          ELSE LET recency_score ==
                                     Max(0, 1000 - (1000 * days_old) \div config.max_days_old)
                                   category == IF event.category # None THEN event.category
                                               ELSE "unknown"
                                   seen == IF category \in DOMAIN category_counts
                                           THEN category_counts[category] ELSE 0
                                   final_score ==
                                     Milli(candidates[i].score) * config.similarity_weight
                                       + recency_score * config.recency_weight
                                       - seen * config.diversity_penalty * 1000
                               IN RulesLoop(candidates, event_map, i + 1,
                                            Put(category_counts, category, seen + 1),
                                            Append(results,
                                                   [event_id |-> event_id,
                                                    category |-> event.category,
                                                    similarity_score |-> candidates[i].score,
                                                    recency_score |-> recency_score,
                                                    final_score |-> final_score]))

apply_business_rules(candidates, event_map) ==
  SortDesc(RulesLoop(candidates, event_map, 1, EmptyMap, <<>>), 1, <<>>)

\* one call of _apply_business_rules on the arguments chosen for it
ApplyBusinessRules ==
  /\ args.op = "apply_business_rules"
  /\ last' = [op |-> "apply_business_rules", candidates |-> args.candidates,
              events |-> args.events,
              result |-> apply_business_rules(args.candidates, args.events)]
  /\ args' = NoArgs
  /\ UNCHANGED <<ixvars, dbvars, recvars, retry, ratevars, mailvars>>

\* ------------------------------------------------------ get_recommendations
\* candidate_meta_by_id.get(cid): the metadata of the last candidate with that id
CandidateMeta(candidates, cid) ==
  candidates[CHOOSE i \in 1..Len(candidates) :
               /\ candidates[i].id = cid
               /\ \A j \in (i + 1)..Len(candidates) : candidates[j].id # cid].metadata

\* event_map: the cached row of each candidate, its category taken from the
\* candidate's metadata when that has one
EventMap(cache, candidates) ==
  [cid \in {candidates[i].id : i \in 1..Len(candidates)} \cap DOMAIN cache |->
     LET candidate_meta == CandidateMeta(candidates, cid)
     IN IF Column(candidate_meta, "category") # None
        THEN [cache[cid] EXCEPT !.category = candidate_meta.category]
        ELSE cache[cid]]

\* get_recommendations from the candidates on: lines 136-158
Rank(st, candidates, fault) ==
  IF candidates = <<>> THEN Return(st, <<>>)
  ELSE LET candidate_ids == [i \in 1..Len(candidates) |-> candidates[i].id]
           loaded == load_events_from_supabase(st.events_cache, candidate_ids, fault = "events")
       IN IF loaded.raised THEN Raise(st)
          ELSE LET ranked == apply_business_rules(candidates, EventMap(loaded.cache, candidates))
               IN Return([st EXCEPT !.events_cache = loaded.cache],
                         SubSeq(ranked, 1, Min(config.top_k, Len(ranked))))

\* every outcome of get_recommendations(user_id) from the recommender state st
get_recommendations(st, user_id, fault) ==
  IF fault = "interactions" THEN {Raise(st)}
  ELSE IF fault = "event_embeddings" /\ embed_user(user_id).path = "warm" THEN {Raise(st)}
  ELSE LET user_vector == embed_user(user_id).vector.num
           feedback == SelectEq(interactions, "subscriber_id", user_id)
           exclude_ids == {feedback[i].event_id : i \in 1..Len(feedback)}
           candidate_count == config.top_k * config.candidate_multiplier
       IN IF use_pgvector
          THEN {Rank(st, candidates, fault) :
                  candidates \in search_similar_events(user_vector, candidate_count,
                                                       exclude_ids, fault = "rpc")}
          ELSE LET loaded == IF size(st.index) = 0
                             THEN load_event_index(st.index, fault = "event_embeddings")
                             ELSE [raised |-> FALSE, index |-> st.index]
                   st1 == [st EXCEPT !.index = loaded.index]
               IN IF loaded.raised THEN {Raise(st)}
                  ELSE {Rank(st1, candidates, fault) :
                          candidates \in search(st1.index, user_vector, candidate_count,
                                                exclude_ids)}

GetRecommendations ==
  \E user_id \in Users, fault \in Faults :
    \E out \in get_recommendations(State, user_id, fault) :
      /\ SetIndex(out.st.index)
      /\ events_cache' = out.st.events_cache
      /\ last' = [op |-> "get_recommendations", user_id |-> user_id, fault |-> fault,
                  raised |-> out.raised, recs |-> out.recs]
      /\ UNCHANGED <<dbvars, use_pgvector, config, restvars>>

\* ------------------------------------------------ get_batch_recommendations
UserLists ==
  UNION {{l \in [1..n -> Users] : \A i, j \in 1..n : i # j => l[i] # l[j]} : n \in 0..MaxBatch}

RECURSIVE BatchLoop(_, _, _, _, _, _)
\* the loop over user_ids: an exception of one call is logged and becomes []
BatchLoop(st, user_ids, faults, i, results, failed) ==
  IF i > Len(user_ids)
  THEN {[raised |-> FALSE, results |-> results, failed |-> failed, st |-> st]}
  ELSE UNION {BatchLoop(out.st, user_ids, faults, i + 1,
                        Put(results, user_ids[i], IF out.raised THEN <<>> ELSE out.recs),
                        IF out.raised THEN failed \cup {user_ids[i]} ELSE failed) :
                out \in get_recommendations(st, user_ids[i], faults[i])}

\* every outcome of get_batch_recommendations(user_ids); preload_failed: the
\* select made by the load before the loop comes back with an error
get_batch_recommendations(st, user_ids, faults, preload_failed) ==
  LET loaded == IF size(st.index) = 0
                THEN load_event_index(st.index, preload_failed)
                ELSE [raised |-> FALSE, index |-> st.index]
  IN IF loaded.raised
     THEN {[raised |-> TRUE, results |-> EmptyMap, failed |-> {}, st |-> st]}
     ELSE BatchLoop([st EXCEPT !.index = loaded.index], user_ids, faults, 1, EmptyMap, {})

GetBatchRecommendations ==
  \E user_ids \in UserLists, preload_failed \in BOOLEAN :
    \E faults \in [1..Len(user_ids) -> Faults] :
      /\ preload_failed => Len(ids) = 0
      /\ \E out \in get_batch_recommendations(State, user_ids, faults, preload_failed) :
           /\ SetIndex(out.st.index)
           /\ events_cache' = out.st.events_cache
           /\ last' = [op |-> "get_batch_recommendations", user_ids |-> user_ids,
                       faults |-> faults, raised |-> out.raised,
                       results |-> out.results, failed |-> out.failed]
           /\ UNCHANGED <<dbvars, use_pgvector, config, restvars>>

(***************************************************************************)
(* Part 4: python_app/scoring.py, rank_events_for_user and its helpers.    *)
(*                                                                         *)
(* A date string is a record: [kind |-> "none"] for None or a missing key, *)
(* "empty" for "", "invalid" for a string fromisoformat rejects, "aware"   *)
(* for an ISO date with a UTC offset and "naive" for one without; days is  *)
(* (event_date - now).days for the instant the string denotes.  Scores are *)
(* exact rationals.                                                        *)
(***************************************************************************)
CLUSTER_MATCH_WEIGHT == 50
MAX_URGENCY_SCORE == 30

UrgencyDays == {-1, 0, 10, 29, 30, 31, 40}

DateStrings ==
  {[kind |-> "none"], [kind |-> "empty"], [kind |-> "invalid"], [kind |-> "naive", days |-> 10]}
    \cup {[kind |-> "aware", days |-> d] : d \in UrgencyDays}

\* the events _urgency_score is called with
UrgencyEvents == [event_date : DateStrings, timestamp : DateStrings]

\* bool(value) of a date string
Truthy(value) == value.kind \notin {"none", "empty"}

NoDate == [kind |-> "none"]

\* _parse_date: the datetime of a string fromisoformat accepts, None otherwise
parse_date(value) == IF value.kind \in {"aware", "naive"} THEN value ELSE NoDate

\* (mutation of urgency_score: the score is capped at MAX_URGENCY_SCORE)
urgency_scoreCapped(event) ==
  LET event_date == parse_date(IF Truthy(event.event_date) THEN event.event_date
                               ELSE IF Truthy(event.timestamp) THEN event.timestamp
                               ELSE [kind |-> "empty"])
  IN IF event_date = NoDate THEN [raised |-> FALSE, value |-> 0]
     ELSE IF event_date.kind = "naive" THEN [raised |-> TRUE, value |-> 0]
     ELSE [raised |-> FALSE,
           value |-> Min(MAX_URGENCY_SCORE, Max(0, MAX_URGENCY_SCORE - event_date.days))]

\* _urgency_score(event); a naive datetime less the aware now raises TypeError
urgency_score(event) ==
  LET event_date == parse_date(IF Truthy(event.event_date) THEN event.event_date
                               ELSE IF Truthy(event.timestamp) THEN event.timestamp
                               ELSE [kind |-> "empty"])
  IN IF event_date = NoDate THEN [raised |-> FALSE, value |-> 0]
     ELSE IF event_date.kind = "naive" THEN [raised |-> TRUE, value |-> 0]
     ELSE LET days_until == event_date.days
          IN [raised |-> FALSE, value |-> Max(0, MAX_URGENCY_SCORE - days_until)]

UrgencyScore ==
  \E event \in UrgencyEvents :
    /\ last' = [op |-> "urgency_score", event |-> event, result |-> urgency_score(event)]
    /\ UNCHANGED <<ixvars, dbvars, recvars, restvars>>

\* the arguments of the direct _cluster_match calls: events of a category
\* the stored rows carry, of one they do not, of an unknown one and of none
ClusterEvents ==
  {[category |-> c] : c \in {"tech_innovation", "arts_music", "unknown_xyz", "", None}}

ClusterPrefs == {NoRow, LowRow, TechRow}

\* decayed_prefs: empty, a dict of one category, a distribution over all
ClusterDecayed ==
  {EmptyMap, [c \in {"arts_music"} |-> Rat(9, 10)],
   [c \in Categories |-> Rat(1, 13)],
   [c \in Categories |-> IF c = "arts_music" THEN Rat(1, 1) ELSE Rat(0, 1)]}

\* (mutation of cluster_match: the stored preference goes before the decayed one)
cluster_matchStoredFirst(event, prefs, decayed_prefs) ==
  LET category == event.category
  IN IF category = None \/ category = "" THEN DEFAULT_CATEGORY_SCORE
     ELSE IF category \in DOMAIN prefs.scores /\ prefs.scores[category] # Unset
          THEN Rat(prefs.scores[category], SCORE_SCALE)
     ELSE IF category \in DOMAIN decayed_prefs THEN decayed_prefs[category]
     ELSE DEFAULT_CATEGORY_SCORE

\* _cluster_match(event, prefs, decayed_prefs)
cluster_match(event, prefs, decayed_prefs) ==
  LET category == event.category
  IN IF category = None \/ category = "" THEN DEFAULT_CATEGORY_SCORE
     ELSE IF category \in DOMAIN decayed_prefs THEN decayed_prefs[category]
     ELSE IF category \in DOMAIN prefs.scores /\ prefs.scores[category] # Unset
          THEN Rat(prefs.scores[category], SCORE_SCALE)
          ELSE DEFAULT_CATEGORY_SCORE

ClusterMatch ==
  \E event \in ClusterEvents, prefs \in ClusterPrefs, decayed_prefs \in ClusterDecayed :
    /\ last' = [op |-> "_cluster_match", event |-> event, prefs |-> prefs,
                decayed_prefs |-> decayed_prefs,
                result |-> cluster_match(event, prefs, decayed_prefs)]
    /\ UNCHANGED <<ixvars, dbvars, recvars, restvars>>

\* an events row as the select returns it: event_date a timestamp with offset
EventRow(row) ==
  [id |-> row.id, category |-> row.category, timestamp |-> NoDate,
   event_date |-> IF row.event_date = <<>> THEN NoDate
                  ELSE [kind |-> "aware", days |-> row.event_date[1]]]

\* InsertAsc: the place of a row in the order by event_date, ascending
InsertAsc(sorted, r) ==
  LET k == Cardinality({j \in 1..Len(sorted) : sorted[j].event_date[1] <= r.event_date[1]})
  IN [j \in 1..(Len(sorted) + 1) |->
        IF j <= k THEN sorted[j] ELSE IF j = k + 1 THEN r ELSE sorted[j - 1]]

RECURSIVE OrderByDate(_, _, _)
OrderByDate(rows, i, sorted) ==
  IF i > Len(rows) THEN sorted
  ELSE OrderByDate(rows, i + 1, InsertAsc(sorted, rows[i]))

\* select * from events where event_date >= now order by event_date limit 100
UpcomingEvents ==
  LET upcoming == SelectSeq(events, LAMBDA row : row.event_date # <<>> /\ row.event_date[1] >= 0)
      ordered == OrderByDate(upcoming, 1, <<>>)
  IN [i \in 1..Min(100, Len(ordered)) |-> EventRow(ordered[i])]

\* ranked.sort(key=score, reverse=True) is stable
InsertByScore(sorted, r) ==
  LET k == Cardinality({j \in 1..Len(sorted) : RLeq(r.score, sorted[j].score)})
  IN [j \in 1..(Len(sorted) + 1) |->
        IF j <= k THEN sorted[j] ELSE IF j = k + 1 THEN r ELSE sorted[j - 1]]

RECURSIVE SortByScore(_, _, _)
SortByScore(ranked, i, sorted) ==
  IF i > Len(ranked) THEN sorted
  ELSE SortByScore(ranked, i + 1, InsertByScore(sorted, ranked[i]))

RECURSIVE ScoreLoop(_, _, _, _, _)
\* the loop over the events: every event scored, in the order of the select
ScoreLoop(evts, prefs, decayed_prefs, i, ranked) ==
  IF i > Len(evts) THEN ranked
  ELSE LET cm == cluster_match(evts[i], prefs, decayed_prefs)
           urgency == urgency_score(evts[i]).value
           score == Rat(cm[1] * CLUSTER_MATCH_WEIGHT + urgency * cm[2], cm[2])
       IN ScoreLoop(evts, prefs, decayed_prefs, i + 1,
                    Append(ranked, [id |-> evts[i].id, score |-> score,
                                    cluster_match |-> cm, urgency_score |-> urgency]))

Limits == {0, 1, 10}

NotFound(error, calls) ==
  [raised |-> TRUE, error |-> error, ranked |-> <<>>, scored |-> <<>>, calls |-> calls]

\* (mutation of rank_events_for_user: a user without a preference row is
\* ranked with an empty row)
rank_events_for_userDefaulted(user_id, limit) ==
  IF user_id \notin profiles
  THEN NotFound("User not found", <<"profiles">>)
  ELSE LET prefs == user_preferences[user_id]
           decayed_prefs == compute_time_decayed_preferences(user_id)
           ranked == ScoreLoop(UpcomingEvents, prefs, decayed_prefs, 1, <<>>)
           sorted == SortByScore(ranked, 1, <<>>)
       IN [raised |-> FALSE, error |-> "", ranked |-> SubSeq(sorted, 1, Min(limit, Len(sorted))),
           scored |-> [i \in 1..Len(ranked) |-> ranked[i].id],
           calls |-> <<"profiles", "user_preferences", "interactions", "events">>]

\* rank_events_for_user(user_id, limit): raised and the error, or the ranking;
\* scored: the events the loop scored; calls: the tables read
rank_events_for_user(user_id, limit) ==
  IF user_id \notin profiles
  THEN NotFound("User not found", <<"profiles">>)
  ELSE IF ~user_preferences[user_id].exists
  THEN NotFound("User preferences not found", <<"profiles", "user_preferences">>)
  ELSE LET prefs == user_preferences[user_id]
           decayed_prefs == compute_time_decayed_preferences(user_id)
           ranked == ScoreLoop(UpcomingEvents, prefs, decayed_prefs, 1, <<>>)
           sorted == SortByScore(ranked, 1, <<>>)
       IN [raised |-> FALSE, error |-> "", ranked |-> SubSeq(sorted, 1, Min(limit, Len(sorted))),
           scored |-> [i \in 1..Len(ranked) |-> ranked[i].id],
           calls |-> <<"profiles", "user_preferences", "interactions", "events">>]

RankEventsForUser ==
  \E user_id \in Users, limit \in Limits :
    /\ last' = [op |-> "rank_events_for_user", user_id |-> user_id, limit |-> limit,
                result |-> rank_events_for_user(user_id, limit)]
    /\ UNCHANGED <<ixvars, dbvars, recvars, restvars>>

(***************************************************************************)
(* Part 5: python_app/openai_client.py, with_retry.                        *)
(*                                                                         *)
(* fn is what its successive calls do: return a value or raise.  One step  *)
(* is one call of fn with its except clause, or one time.sleep.            *)
(***************************************************************************)
OPENAI_MAX_RETRIES == 3
RETRY_BASE_WAIT == 1
RETRY_MAX_WAIT == 10
MaxFnCalls == 4  \* the calls of fn that are scripted

NON_RETRYABLE == {"AuthenticationError", "BadRequestError"}

\* the exceptions `except Exception` catches
Exceptions == {"AuthenticationError", "BadRequestError", "ConnectionError", "RateLimitError"}

Outcomes ==
  {[kind |-> "return", what |-> "success"]}
    \cup {[kind |-> "raise", what |-> e] : e \in Exceptions \cup {"KeyboardInterrupt"}}

Fns == [1..MaxFnCalls -> Outcomes]

NoOutcome == [kind |-> "none", what |-> ""]

RetryStart ==
  [pc |-> "try", attempt |-> 1, calls |-> 0, sleeps |-> <<>>, last_exc |-> NoOutcome,
   result |-> NoOutcome]

RetryIdle == retry = [RetryStart EXCEPT !.pc = "idle"]

RECURSIVE Pow2(_)
Pow2(n) == IF n = 0 THEN 1 ELSE 2 * Pow2(n - 1)

\* min(_RETRY_BASE_WAIT * (2 ** (attempt - 1)), _RETRY_MAX_WAIT)
Wait(attempt) == Min(RETRY_BASE_WAIT * Pow2(attempt - 1), RETRY_MAX_WAIT)

\* (mutation of ShouldWait: a wait follows every failed attempt)
ShouldWaitAlways(attempt) == TRUE

\* if attempt < OPENAI_MAX_RETRIES
ShouldWait(attempt) == attempt < OPENAI_MAX_RETRIES

\* the end of one iteration of the for loop: the next attempt, or after the
\* last one `raise last_exc`
NextAttempt(r) ==
  IF r.attempt < OPENAI_MAX_RETRIES
  THEN [r EXCEPT !.pc = "try", !.attempt = @ + 1]
  ELSE [r EXCEPT !.pc = "done", !.result = r.last_exc]

\* one call of fn and the except clause it lands in
AfterCall(r, outcome) ==
  LET called == [r EXCEPT !.calls = @ + 1]
  IN IF outcome.kind = "return"
     THEN [called EXCEPT !.pc = "done", !.result = outcome]
     ELSE IF outcome.what \in NON_RETRYABLE \/ outcome.what \notin Exceptions
     THEN [called EXCEPT !.pc = "done", !.result = outcome]
     ELSE LET failed == [called EXCEPT !.last_exc = outcome]
          IN IF ShouldWait(r.attempt) THEN [failed EXCEPT !.pc = "sleep"]
             ELSE NextAttempt(failed)

RetryCall ==
  /\ retry.pc = "try"
  /\ retry.calls < MaxFnCalls
  /\ retry' = AfterCall(retry, args.fn[retry.calls + 1])
  /\ UNCHANGED <<ixvars, dbvars, recvars, args, ratevars, mailvars, last>>

\* time.sleep(wait)
RetrySleep ==
  /\ retry.pc = "sleep"
  /\ retry' = NextAttempt([retry EXCEPT !.sleeps = Append(@, Wait(retry.attempt))])
  /\ UNCHANGED <<ixvars, dbvars, recvars, args, ratevars, mailvars, last>>

(***************************************************************************)
(* Part 6: api/feedback.py, is_rate_limited.                               *)
(*                                                                         *)
(* Each request runs in a thread of its own.  A thread reads time.time()   *)
(* and computes window_start before it asks for _rate_limit_lock; the body *)
(* of the `with` block is one step, the lock admitting one thread at a     *)
(* time.  The clock may advance between any two steps.  admitted logs, per *)
(* user, the `now` of every call that returned False.                      *)
(***************************************************************************)
RATE_LIMIT_WINDOW_SECONDS == 60
RATE_LIMIT_MAX_REQUESTS == 30
\* the instants at which the clock is read: a start, and the first instant
\* whose window no longer holds the start
Instants == {0, 60}
MaxRateCalls == 32  \* calls of the first user that get as far as the lock and are admitted
MaxOtherCalls == 1  \* the same for the second user

Threads == {"t1", "t2"}

\* the empty string is the user id of a request without one
RateUsers == {"u1", "u2", ""}

IdleCaller == [pc |-> "idle", user_id |-> "", now |-> 0]

\* _rate_limit_store[user_id] of a defaultdict(list)
StoreOf(lists, user_id) == IF user_id \in DOMAIN lists THEN lists[user_id] ELSE <<>>

\* the body of `with _rate_limit_lock`: the store and the log after it, and
\* what is returned
Locked(lists, log, user_id, now) ==
  LET window_start == now - RATE_LIMIT_WINDOW_SECONDS
      kept == SelectSeq(StoreOf(lists, user_id), LAMBDA ts : ts > window_start)
  IN IF Len(kept) >= RATE_LIMIT_MAX_REQUESTS
     THEN [store |-> Put(lists, user_id, kept), log |-> log, limited |-> TRUE]
     ELSE [store |-> Put(lists, user_id, Append(kept, now)),
           log |-> Put(log, user_id, Append(StoreOf(log, user_id), now)),
           limited |-> FALSE]

\* is_rate_limited(user_id) up to the lock: `if not user_id: return False`,
\* then now = time.time()
RateEnter ==
  \E t \in Threads, user_id \in RateUsers :
    /\ callers[t].pc = "idle"
    /\ user_id # "" =>
         Len(StoreOf(admitted, user_id))
           + Cardinality({c \in Threads : callers[c].pc = "lock" /\ callers[c].user_id = user_id})
           < (IF user_id = "u1" THEN MaxRateCalls ELSE MaxOtherCalls)
    /\ IF user_id = ""
       THEN /\ last' = [op |-> "is_rate_limited", limited |-> FALSE]
            /\ UNCHANGED callers
       ELSE /\ callers' = [callers EXCEPT ![t] = [pc |-> "lock", user_id |-> user_id,
                                                  now |-> clock]]
            /\ UNCHANGED last
    /\ UNCHANGED <<ixvars, dbvars, recvars, args, retry, mailvars, clock, rate_limit_store,
                   admitted>>

\* is_rate_limited(user_id) inside the lock, and its return
RateLocked ==
  \E t \in Threads :
    /\ callers[t].pc = "lock"
    /\ LET out == Locked(rate_limit_store, admitted, callers[t].user_id, callers[t].now)
       IN /\ rate_limit_store' = out.store
          /\ admitted' = out.log
          /\ last' = [op |-> "is_rate_limited", limited |-> out.limited]
    /\ callers' = [callers EXCEPT ![t] = IdleCaller]
    /\ UNCHANGED <<ixvars, dbvars, recvars, args, retry, mailvars, clock>>

\* time passes
Tick ==
  /\ clock' \in {i \in Instants : i > clock}
  /\ UNCHANGED <<ixvars, dbvars, recvars, args, retry, mailvars, rate_limit_store, callers,
                 admitted, last>>

(***************************************************************************)
(* Part 7: unsubscribing, subscribing and the newsletter runs.             *)
(*                                                                         *)
(* api/unsubscribe.py writes is_unsubscribed to the tables subscribers and *)
(* profiles, api/subscribe.py reads and writes the table users,            *)
(* run_two_phase_newsletter reads users, EmailDeliveryService reads        *)
(* profiles.  A user has the same id in every table that has a row for     *)
(* them.  Each request and each run is one step; opted_out is the set of   *)
(* users whose last completed request was a successful unsubscribe.        *)
(***************************************************************************)
\* a row of users or subscribers, as far as delivery reads it
Subscribed == [is_unsubscribed |-> FALSE]
Unsubscribed == [is_unsubscribed |-> TRUE]

\* update(payload).eq("id", user_id): the row changes if there is one
UpdateRow(table, user_id, row) ==
  IF user_id \in DOMAIN table THEN [table EXCEPT ![user_id] = row] ELSE table

\* fault: the update that raises, or "client" for a supabase client of None
UnsubscribeFaults == {"none", "subscribers", "profiles", "client"}

\* the values of UNSUBSCRIBE_TOKEN_SECRET: unset (or empty), or set
Secrets == {"", "k1"}

\* _expected_token: hmac.new(secret, user_id, sha256).hexdigest(), for the
\* secrets k1 and k2 and the ids of Users
_expected_token(user_id, secret) ==
  CASE secret = "k1" /\ user_id = "u1"
         -> "f30ffe463af72e70b9274fc6767b3e49d857f8b8e358349e3be4c5f1bd6671c5"
    [] secret = "k1" /\ user_id = "u2"
         -> "839c696db90e407e42f76407d07ac77e9637d578a1fcfb60cc3895156c732ce4"
    [] secret = "k2" /\ user_id = "u1"
         -> "f2fa8ed07fd9204187d320fb7783ad8c64bffd08d2e79eecbd03da4804eca99c"
    [] secret = "k2" /\ user_id = "u2"
         -> "32c79e13bc70a29d632565538846895573d8a21dfc451f9a81bee5e0a6599c31"

\* the token parameter: none ("" as well), the token of a user under k1 or
\* under another secret, the token of u1 in upper case or cut to 32 digits
Tokens ==
  {""} \cup {_expected_token(u, k) : u \in Users, k \in {"k1", "k2"}}
       \cup {"F30FFE463AF72E70B9274FC6767B3E49D857F8B8E358349E3BE4C5F1BD6671C5",
              "f30ffe463af72e70b9274fc6767b3e49"}

\* (mutation of _is_valid_token: a token of any user under the secret passes)
_is_valid_tokenAnyUser(user_id, token, secret) ==
  IF token = "" THEN FALSE
  ELSE \E u \in Users : _expected_token(u, secret) = token

\* _is_valid_token: hmac.compare_digest is equality of the two strings
_is_valid_token(user_id, token, secret) ==
  IF token = "" THEN FALSE
  ELSE _expected_token(user_id, secret) = token

\* GET /api/unsubscribe?uid=user_id&token=token: the tables after it and the
\* status of the response (200 stands for the page and for the redirect)
unsubscribe(user_id, token, fault) ==
  LET untouched(status) ==
        [status |-> status, subscribers |-> subscribers_table,
         profiles_unsub |-> profiles_unsub]
  IN IF user_id = "" THEN untouched(400)
     ELSE IF UNSUBSCRIBE_TOKEN_SECRET = "" THEN untouched(500)
     ELSE IF ~_is_valid_token(user_id, token, UNSUBSCRIBE_TOKEN_SECRET) THEN untouched(403)
     ELSE IF fault = "client" THEN untouched(500)
     ELSE IF fault = "subscribers" THEN untouched(500)
     ELSE [status |-> 200,
           subscribers |-> UpdateRow(subscribers_table, user_id, Unsubscribed),
           profiles_unsub |-> IF fault = "profiles" \/ user_id \notin profiles
                              THEN profiles_unsub
                              ELSE profiles_unsub \cup {user_id}]

Unsubscribe ==
  \E user_id \in Users \cup {""}, token \in Tokens, fault \in UnsubscribeFaults :
    LET out == unsubscribe(user_id, token, fault)
    IN /\ subscribers_table' = out.subscribers
       /\ profiles_unsub' = out.profiles_unsub
       /\ opted_out' = IF out.status = 200 THEN opted_out \cup {user_id} ELSE opted_out
       /\ last' = [op |-> "unsubscribe", user_id |-> user_id, status |-> out.status,
                   sent_to |-> {}, token |-> token, fault |-> fault]
       /\ UNCHANGED <<ixvars, dbvars, recvars, args, retry, ratevars, users_table,
                      UNSUBSCRIBE_TOKEN_SECRET>>

\* POST /api/subscribe with the email of user_id: the users table after it
\* and the status
subscribe(user_id) ==
  IF user_id \in DOMAIN users_table
  THEN IF users_table[user_id].is_unsubscribed
       THEN [status |-> 200, users |-> [users_table EXCEPT ![user_id] = Subscribed]]
       ELSE [status |-> 409, users |-> users_table]
  ELSE [status |-> 200, users |-> Put(users_table, user_id, Subscribed)]

Subscribe ==
  \E user_id \in Users :
    LET out == subscribe(user_id)
    IN /\ users_table' = out.users
       /\ opted_out' = IF out.status = 200 THEN opted_out \ {user_id} ELSE opted_out
       /\ last' = [op |-> "subscribe", user_id |-> user_id, status |-> out.status,
                   sent_to |-> {}]
       /\ UNCHANGED <<ixvars, dbvars, recvars, args, retry, ratevars, subscribers_table,
                      profiles_unsub, UNSUBSCRIBE_TOKEN_SECRET>>

\* run_two_phase_newsletter: the users of the table users that are mailed
run_two_phase_newsletter ==
  {user_id \in DOMAIN users_table : ~users_table[user_id].is_unsubscribed}

RunTwoPhaseNewsletter ==
  /\ last' = [op |-> "run_two_phase_newsletter", user_id |-> "", status |-> 0,
              sent_to |-> run_two_phase_newsletter]
  /\ UNCHANGED <<ixvars, dbvars, recvars, args, retry, ratevars, mailvars>>

\* EmailDeliveryService.send_newsletters(ranked_events_by_user): the users
\* of its keys that are mailed
send_newsletters(user_ids) ==
  {user_id \in user_ids : user_id \in profiles /\ user_id \notin profiles_unsub}

SendNewsletters ==
  \E user_ids \in SUBSET Users :
    /\ last' = [op |-> "send_newsletters", user_id |-> "", status |-> 0,
                sent_to |-> send_newsletters(user_ids)]
    /\ UNCHANGED <<ixvars, dbvars, recvars, args, retry, ratevars, mailvars>>

(***************************************************************************)
(* Part 8: api/feedback.py, the handler of a feedback click.               *)
(*                                                                         *)
(* A request is validated and passed by the rate limiter in one step (the  *)
(* limiter's own steps are Part 6), store_interaction reads the table in   *)
(* the next and writes it in the last, which also runs the decay test,     *)
(* update_preferences and the redirect.  Requests run in threads of their  *)
(* own, so the steps of two requests interleave.  The tables answer.  A    *)
(* sent timestamp carries its age in days at the time of the request.      *)
(***************************************************************************)
PREFERENCE_DECAY_DAYS == 15
MaxFeedback == 2    \* requests of the user u1 that get past the rate limiter

\* 1.0 / 13.0 and 0.05, in 1/1300
UNIFORM_BASELINE == 100
SCORE_INCREMENT == 65

\* the query parameters; "" stands for a parameter that is not given
RawUids == {"u2", " u1 ", "not-a-uuid", ""}
RawEids == {"e1", ""}
RawCats == {" Tech_Innovation", "bogus", ""}
RawActions == {"like", "dislike", "admin"}
SentStrings ==
  {[kind |-> "none", age |-> 0], [kind |-> "invalid", age |-> 0],
   [kind |-> "aware", age |-> 15], [kind |-> "aware", age |-> 16],
   [kind |-> "naive", age |-> 16]}

\* str.strip() and str.lower() on the parameters above
Strip(raw) ==
  CASE raw = " u1 " -> "u1"
    [] raw = " Tech_Innovation" -> "Tech_Innovation"
    [] OTHER -> raw

Lower(raw) == IF raw = "Tech_Innovation" THEN "tech_innovation" ELSE raw

VALID_CATEGORIES == Categories \cup {"general"}
ACTION_WHITELIST == {"like", "dislike", "click"}

\* validate_user_id: the ids of Users are the strings UUID_PATTERN matches
validate_user_id(user_id) ==
  IF user_id = "" THEN [raised |-> TRUE, value |-> ""]
  ELSE IF Strip(user_id) \notin Users THEN [raised |-> TRUE, value |-> ""]
  ELSE [raised |-> FALSE, value |-> Strip(user_id)]

\* validate_event_id: the ids of Events are the strings EVENT_ID_PATTERN matches
validate_event_id(event_id) ==
  IF event_id = "" THEN [raised |-> TRUE, value |-> ""]
  ELSE IF Strip(event_id) \notin Events THEN [raised |-> TRUE, value |-> ""]
  ELSE [raised |-> FALSE, value |-> Strip(event_id)]

validate_category(category) ==
  IF category = "" THEN "general"
  ELSE IF Lower(Strip(category)) \notin VALID_CATEGORIES THEN "general"
  ELSE Lower(Strip(category))

validate_action(action) ==
  IF action = "" THEN "like"
  ELSE IF Lower(Strip(action)) \notin ACTION_WHITELIST THEN "like"
  ELSE Lower(Strip(action))

NoTimestamp == [kind |-> "none", age |-> 0]

\* validate_timestamp: the string when datetime.fromisoformat accepts it
validate_timestamp(timestamp) ==
  IF timestamp.kind \in {"aware", "naive"} THEN timestamp ELSE NoTimestamp

\* (mutation of is_within_decay_window: the window is 16 days)
is_within_decay_windowWider(email_sent_at) ==
  IF email_sent_at.kind = "none" THEN TRUE
  ELSE IF email_sent_at.kind \notin {"aware", "naive"} THEN TRUE
  ELSE IF email_sent_at.kind = "naive" THEN TRUE
  ELSE email_sent_at.age <= PREFERENCE_DECAY_DAYS + 1

\* is_within_decay_window: now - sent_date raises TypeError for a sent_date
\* without a UTC offset, and every exception answers True
is_within_decay_window(email_sent_at) ==
  IF email_sent_at.kind = "none" THEN TRUE
  ELSE IF email_sent_at.kind \notin {"aware", "naive"} THEN TRUE
  ELSE IF email_sent_at.kind = "naive" THEN TRUE
  ELSE email_sent_at.age <= PREFERENCE_DECAY_DAYS

\* ------------------------------------------------------ store_interaction
NoExisting == [found |-> FALSE, id |-> 0, interaction_type |-> ""]

\* the answers the select ... limit(1) can give: any one matching row (the
\* id of a row is its position), or none
Existing(table, user_id, event_id) ==
  LET matching == {i \in 1..Len(table) :
                     table[i].user_id = user_id /\ table[i].event_id = event_id}
  IN IF matching = {} THEN {NoExisting}
     ELSE {[found |-> TRUE, id |-> i, interaction_type |-> table[i].interaction_type] :
             i \in matching}

\* the write that follows the select: update when the action changed, insert
\* when no row was found.  The tables a write can leave: the schema is not
\* part of the repository, so an insert for a pair that has a row by now
\* either adds a second row or is refused, and the exception is logged.
StoreWrite(table, existing, user_id, event_id, action) ==
  IF existing.found
  THEN IF existing.interaction_type # action
       THEN {[table EXCEPT ![existing.id].interaction_type = action]}
       ELSE {table}
  ELSE {Append(table, [user_id |-> user_id, event_id |-> event_id,
                       interaction_type |-> action, age |-> 0])}
       \cup {table : i \in {j \in 1..Len(table) : /\ table[j].user_id = user_id
                                                  /\ table[j].event_id = event_id}}

\* ----------------------------------------------------- update_preferences
\* (mutation of update_preferences: the new score is not clamped)
update_preferencesUnclamped(table, user_id, category, action) ==
  IF category = "general" THEN table
  ELSE IF table[user_id].exists
  THEN LET current_score == table[user_id].scores[category]
       IN IF current_score = Unset THEN table
          ELSE [table EXCEPT ![user_id].scores[category] =
                  IF action = "like" THEN current_score + SCORE_INCREMENT
                  ELSE current_score - SCORE_INCREMENT]
  ELSE [table EXCEPT ![user_id] =
          [exists |-> TRUE,
           scores |-> [cat \in Categories |->
                         IF cat # category THEN Unset
                         ELSE IF action = "like" THEN UNIFORM_BASELINE + 2 * SCORE_INCREMENT
                         ELSE UNIFORM_BASELINE - SCORE_INCREMENT]]]

\* update_preferences(user_id, category, action): the table after it.  A
\* column holding None makes the sum raise TypeError, which is logged.
update_preferences(table, user_id, category, action) ==
  IF category = "general" THEN table
  ELSE IF table[user_id].exists
  THEN LET current_score == table[user_id].scores[category]
       IN IF current_score = Unset THEN table
          ELSE [table EXCEPT ![user_id].scores[category] =
                  IF action = "like" THEN Min(SCORE_SCALE, current_score + SCORE_INCREMENT)
                  ELSE Max(0, current_score - SCORE_INCREMENT)]
  ELSE [table EXCEPT ![user_id] =
          [exists |-> TRUE,
           scores |-> [cat \in Categories |->
                         IF cat # category THEN Unset
                         ELSE IF action = "like" THEN UNIFORM_BASELINE + 2 * SCORE_INCREMENT
                         ELSE Max(0, UNIFORM_BASELINE - SCORE_INCREMENT)]]]

\* ------------------------------------------------------------------ do_GET
\* do_GET up to store_interaction: validation, then is_rate_limited
FeedbackGet ==
  \E t \in Threads, uid \in RawUids, eid \in RawEids, cat \in RawCats,
     action \in RawActions, sent \in SentStrings :
    LET user_id == validate_user_id(uid)
        event_id == validate_event_id(eid)
        out == Locked(rate_limit_store, admitted, user_id.value, clock)
    IN /\ callers[t].pc = "idle"
       /\ IF user_id.raised \/ event_id.raised
          THEN /\ last' = [op |-> "do_GET", status |-> 302, location |-> "invalid_params"]
               /\ UNCHANGED <<callers, rate_limit_store, admitted>>
          ELSE /\ user_id.value = "u1" => Len(StoreOf(admitted, "u1")) < MaxFeedback
               /\ rate_limit_store' = out.store
               /\ admitted' = out.log
               /\ IF out.limited
                  THEN /\ last' = [op |-> "do_GET", status |-> 429, location |-> ""]
                       /\ UNCHANGED callers
                  ELSE /\ callers' = [callers EXCEPT ![t] =
                            [pc |-> "select", user_id |-> user_id.value, now |-> clock,
                             event_id |-> event_id.value, category |-> validate_category(cat),
                             action |-> validate_action(action), sent |-> sent,
                             existing |-> NoExisting]]
                       /\ UNCHANGED last
       /\ UNCHANGED <<ixvars, dbvars, recvars, args, retry, mailvars, clock>>

\* store_interaction: the select of the existing row
FeedbackSelect ==
  \E t \in Threads :
    /\ callers[t].pc = "select"
    /\ \E existing \in Existing(interactions, callers[t].user_id, callers[t].event_id) :
         callers' = [callers EXCEPT ![t].pc = "write", ![t].existing = existing]
    /\ UNCHANGED <<ixvars, dbvars, recvars, args, retry, mailvars, clock, rate_limit_store,
                   admitted, last>>

\* store_interaction: the update or insert; then the decay test,
\* update_preferences and the redirect
FeedbackWrite ==
  \E t \in Threads :
    LET r == callers[t]
        within == is_within_decay_window(validate_timestamp(r.sent))
    IN /\ r.pc = "write"
       /\ interactions' \in StoreWrite(interactions, r.existing, r.user_id, r.event_id, r.action)
       /\ user_preferences' =
            IF within THEN update_preferences(user_preferences, r.user_id, r.category, r.action)
            ELSE user_preferences
       /\ last' = [op |-> "do_GET", status |-> 302, location |-> "",
                   user_id |-> r.user_id, event_id |-> r.event_id, category |-> r.category,
                   action |-> r.action, sent |-> r.sent,
                   before |-> user_preferences[r.user_id]]
       /\ callers' = [callers EXCEPT ![t] = IdleCaller]
       /\ UNCHANGED <<ixvars, profiles, recvars, args, retry, mailvars, clock,
                      rate_limit_store, admitted>>

(***************************************************************************)
(* Part 9: scripts_py/two_phase_newsletter.py, the Phase 2 newsletter.     *)
(*                                                                         *)
(* posts are the rows of the table events, which populate_events.py        *)
(* upserts on their id: a list of posts holds no id twice.  A post is its  *)
(* id and its category ("" for none); an event of the newsletter is its    *)
(* event_id, its category and the exploration mark.  random.sample may     *)
(* return every subset of the asked size; a sample is given in the order   *)
(* of the list it is drawn from, nothing read afterwards depends on the    *)
(* order.                                                                  *)
(***************************************************************************)
DEFAULT_PHASE2_TOTAL == 9
MaxPosts == 11     \* posts in the table events

CATEGORY_COLUMNS ==
  <<"tech_innovation", "career_networking", "academic_workshops", "social_cultural",
    "entrepreneurship", "sports_fitness", "arts_music", "volunteering_community",
    "food_dining", "travel_adventure", "health_wellness", "environment_sustainability",
    "gaming_esports">>

PostIds == <<"p01", "p02", "p03", "p04", "p05", "p06", "p07", "p08", "p09", "p10", "p11", "p12">>

\* CategoryCache after load_all: event_embeddings knows the category of p02
_category_cache == [event_id \in {"p02"} |-> "gaming_esports"]

Repeat(x, n) == [i \in 1..n |-> x]

\* the lists of posts: some without a category, then some of tech_innovation,
\* arts_music, career_networking and academic_workshops
PostLists ==
  {[i \in 1..Len(cats) |-> [id |-> PostIds[i], category |-> cats[i]]] :
     cats \in {c \in {Repeat("", g) \o Repeat("tech_innovation", a) \o Repeat("arts_music", d)
                        \o Repeat("career_networking", b) \o Repeat("academic_workshops", w) :
                      g \in {0, 1, 2}, a \in {0, 1, 4}, d \in {0, 1, 3}, b \in {0, 4},
                      w \in {0, 2}} :
                 Len(c) <= MaxPosts}}

\* the elements of seq at the positions of S, in the order of seq
SubSeqAt(seq, S) ==
  LET F[i \in 0..Len(seq)] ==
        IF i = 0 THEN <<>> ELSE IF i \in S THEN Append(F[i - 1], seq[i]) ELSE F[i - 1]
  IN F[Len(seq)]

\* random.sample(population, k)
Samples(population, k) ==
  {SubSeqAt(population, S) : S \in {T \in SUBSET (1..Len(population)) : Cardinality(T) = k}}

_resolve_category(post) ==
  IF post.category # "" THEN post.category
  ELSE IF post.id \in DOMAIN _category_cache THEN _category_cache[post.id]
  ELSE "general"

build_event_from_post(post, category, is_exploration) ==
  [event_id |-> post.id,
   category |-> IF category # "" THEN category
                ELSE IF post.category # "" THEN post.category ELSE "general",
   is_exploration |-> is_exploration]

BuildAll(sample, is_exploration) ==
  [j \in 1..Len(sample) |->
     build_event_from_post(sample[j], _resolve_category(sample[j]), is_exploration)]

\* send_phase1_random_newsletter: the lists of sent ids it can return
send_phase1_random_newsletter(posts) ==
  {[j \in 1..Len(sample) |-> sample[j].id] : sample \in Samples(posts, Min(9, Len(posts)))}

\* get_user_preferred_categories: list.sort is stable, a score of None makes
\* the comparison raise TypeError
get_user_preferred_categories(row) ==
  LET defaults == <<"tech_innovation", "career_networking", "academic_workshops">>
      score(i) == row.scores[CATEGORY_COLUMNS[i]]
      cols == 1..Len(CATEGORY_COLUMNS)
      rank(i) == 1 + Cardinality({j \in cols : score(j) > score(i) \/ (score(j) = score(i) /\ j < i)})
      sorted == [r \in cols |-> CHOOSE i \in cols : rank(i) = r]
      top_cats == [j \in 1..Cardinality({r \in 1..3 : score(sorted[r]) > 0}) |->
                     CATEGORY_COLUMNS[sorted[j]]]
  IN IF ~row.exists THEN [raised |-> FALSE, categories |-> defaults]
     ELSE IF \E cat \in Categories : row.scores[cat] = Unset
     THEN [raised |-> TRUE, categories |-> <<>>]
     ELSE IF Len(top_cats) >= 3 THEN [raised |-> FALSE, categories |-> top_cats]
     ELSE [raised |-> FALSE, categories |-> defaults]

RECURSIVE CategoryLoop(_, _, _, _, _, _)
CategoryLoop(posts, category, exclude_ids, limit, i, matching) ==
  IF i > Len(posts) THEN [events |-> matching, exclude_ids |-> exclude_ids]
  ELSE IF posts[i].id \in exclude_ids
  THEN CategoryLoop(posts, category, exclude_ids, limit, i + 1, matching)
  ELSE IF _resolve_category(posts[i]) # category
  THEN CategoryLoop(posts, category, exclude_ids, limit, i + 1, matching)
  ELSE LET found == Append(matching, build_event_from_post(posts[i], category, FALSE))
           excluded == exclude_ids \cup {posts[i].id}
       IN IF Len(found) >= limit THEN [events |-> found, exclude_ids |-> excluded]
          ELSE CategoryLoop(posts, category, excluded, limit, i + 1, found)

\* get_events_by_category: the events and exclude_ids after the call
get_events_by_category(posts, category, exclude_ids, limit) ==
  CategoryLoop(posts, category, exclude_ids, limit, 1, <<>>)

Available(posts, exclude_ids) == SelectSeq(posts, LAMBDA p : p.id \notin exclude_ids)

\* the events of a sample and exclude_ids with their ids added
Picked(sample, exclude_ids, is_exploration) ==
  [events |-> BuildAll(sample, is_exploration),
   exclude_ids |-> exclude_ids \cup {sample[j].id : j \in 1..Len(sample)}]

\* (mutation of get_exploration_events: the candidates are not tested
\* against exclude_ids)
get_exploration_eventsUnfiltered(posts, exclude_ids, preferred_categories, limit) ==
  LET exploration_candidates ==
        SelectSeq(posts, LAMBDA p : /\ _resolve_category(p) \notin Range(preferred_categories)
                                    /\ _resolve_category(p) # "general")
      population == IF exploration_candidates = <<>> THEN Available(posts, exclude_ids)
                    ELSE exploration_candidates
  IN {Picked(sample, exclude_ids, TRUE) :
        sample \in Samples(population, Min(limit, Len(population)))}

\* get_exploration_events: the outcomes of the call
get_exploration_events(posts, exclude_ids, preferred_categories, limit) ==
  LET exploration_candidates ==
        SelectSeq(posts, LAMBDA p : /\ p.id \notin exclude_ids
                                    /\ _resolve_category(p) \notin Range(preferred_categories)
                                    /\ _resolve_category(p) # "general")
      population == IF exploration_candidates = <<>> THEN Available(posts, exclude_ids)
                    ELSE exploration_candidates
  IN {Picked(sample, exclude_ids, TRUE) :
        sample \in Samples(population, Min(limit, Len(population)))}

\* top_up_events: the outcomes of the call
top_up_events(posts, exclude_ids, limit) ==
  LET available == Available(posts, exclude_ids)
  IN IF available = <<>> \/ limit <= 0 THEN {[events |-> <<>>, exclude_ids |-> exclude_ids]}
     ELSE {Picked(sample, exclude_ids, FALSE) :
             sample \in Samples(available, Min(limit, Len(available)))}

\* send_phase2_preference_newsletter: the lists selected_events it can build
send_phase2_preference_newsletter(categories, posts, phase1_ids) ==
  LET cat1 == get_events_by_category(posts, categories[1], Range(phase1_ids), 3)
      cat2 == get_events_by_category(posts, categories[2], cat1.exclude_ids, 3)
      cat3 == get_events_by_category(posts, categories[3], cat2.exclude_ids, 1)
      by_category == cat1.events \o cat2.events \o cat3.events
      TopUps(selected_events, exclude_ids) ==
        IF Len(selected_events) < DEFAULT_PHASE2_TOTAL
        THEN top_up_events(posts, exclude_ids, DEFAULT_PHASE2_TOTAL - Len(selected_events))
        ELSE {[events |-> <<>>, exclude_ids |-> exclude_ids]}
  IN UNION {{by_category \o exploration.events \o top_ups.events :
               top_ups \in TopUps(by_category \o exploration.events, exploration.exclude_ids)} :
            exploration \in get_exploration_events(posts, cat3.exclude_ids, categories, 2)}

\* one call; the mail is sent or send_email raises
SendPhase2PreferenceNewsletter ==
  LET categories == get_user_preferred_categories(user_preferences[args.user_id])
  IN /\ args.op = "send_phase2_preference_newsletter"
     /\ last.op = "init"
     /\ IF categories.raised
        THEN last' = [op |-> "send_phase2_preference_newsletter", raised |-> TRUE,
                      categories |-> <<>>, selected_events |-> <<>>, status |-> "none"]
        ELSE \E selected_events \in
                  send_phase2_preference_newsletter(categories.categories, args.posts,
                                                    args.phase1_ids),
                status \in {"sent", "failed"} :
               last' = [op |-> "send_phase2_preference_newsletter",
                        raised |-> status = "failed", categories |-> categories.categories,
                        selected_events |-> selected_events, status |-> status]
     /\ UNCHANGED <<ixvars, dbvars, recvars, args, retry, ratevars, mailvars>>

\* ========================================================== Specifications
\* the parts that take no part in a run
LimiterIdle ==
  /\ clock = 0
  /\ rate_limit_store = EmptyMap
  /\ callers = EmptyMap
  /\ admitted = EmptyMap

MailIdle ==
  /\ users_table = EmptyMap
  /\ subscribers_table = EmptyMap
  /\ profiles_unsub = {}
  /\ opted_out = {}
  /\ UNSUBSCRIBE_TOKEN_SECRET = ""

\* everything but with_retry idle
CoreIdle ==
  /\ IndexInit
  /\ interactions = <<>>
  /\ user_preferences = [u \in Users |-> NoRow]
  /\ profiles = Users
  /\ events_cache = EmptyMap
  /\ use_pgvector = FALSE
  /\ config = DefaultConfig

\* A VectorIndex on its own: the tables play no part.
Init ==
  /\ IndexInit
  /\ interactions = <<>>
  /\ user_preferences = [u \in Users |-> NoRow]
  /\ profiles = Users
  /\ events_cache = EmptyMap
  /\ use_pgvector = FALSE
  /\ config = DefaultConfig
  /\ args = NoArgs
  /\ RetryIdle /\ LimiterIdle /\ MailIdle

Next == Add \/ AddBatch \/ Remove \/ Clear \/ Search

Spec == Init /\ [][Next]_vars

\* A VectorIndex fed floats that need not be finite.
FloatNext == AddFloat \/ Remove \/ Clear \/ SearchFloat

SpecFloat == Init /\ [][FloatNext]_vars

\* load_event_index over every small answer of the select, on an index that
\* add calls may have filled before.
LoadInit ==
  /\ IndexInit
  /\ interactions = <<>>
  /\ user_preferences = [u \in Users |-> NoRow]
  /\ profiles = Users
  /\ events_cache = EmptyMap
  /\ use_pgvector = FALSE
  /\ config = DefaultConfig
  /\ args \in {[op |-> "event_embeddings", rows |-> rows] : rows \in Stores}
  /\ RetryIdle /\ LimiterIdle /\ MailIdle

LoadNext == Add \/ LoadEventIndex

SpecLoad == LoadInit /\ [][LoadNext]_vars

\* ------------------------------------------------------------ feedback runs
\* a row of the first user: no row, a row of all None, or the category scored
ScoredRow(score) ==
  [exists |-> TRUE,
   scores |-> [cat \in Categories |-> IF cat = "tech_innovation" THEN score ELSE Unset]]

FeedbackRows == {NoRow, ScoredRow(Unset), ScoredRow(0), ScoredRow(SCORE_SCALE)}

\* the second user has used the window up with 30 clicks on e1, none of
\* them with a category
UsedUp == [i \in 1..RATE_LIMIT_MAX_REQUESTS |-> 0]

FeedbackInit ==
  /\ IndexInit
  /\ interactions = <<[user_id |-> "u2", event_id |-> "e1", interaction_type |-> "like",
                       age |-> 0]>>
  /\ user_preferences \in {[u \in Users |-> IF u = "u1" THEN r ELSE NoRow] : r \in FeedbackRows}
  /\ profiles = Users
  /\ events_cache = EmptyMap
  /\ use_pgvector = FALSE
  /\ config = DefaultConfig
  /\ args = NoArgs
  /\ RetryIdle /\ MailIdle
  /\ clock = 0
  /\ rate_limit_store = [u \in {"u2"} |-> UsedUp]
  /\ admitted = [u \in {"u2"} |-> UsedUp]
  /\ callers = [t \in Threads |-> IdleCaller]

FeedbackNext == FeedbackGet \/ FeedbackSelect \/ FeedbackWrite

SpecFeedback == FeedbackInit /\ [][FeedbackNext]_vars

\* --------------------------------------------------------- Phase 2 runs
\* rows of user_preferences with a number in every column
FullRow(top) ==
  [exists |-> TRUE,
   scores |-> [cat \in Categories |-> IF cat \in DOMAIN top THEN top[cat] ELSE 0]]

Phase2Rows ==
  {NoRow, TechRow,
   FullRow([cat \in Categories |-> UNIFORM_BASELINE]),
   FullRow([cat \in {"arts_music"} |-> SCORE_SCALE]),
   FullRow([cat \in {"arts_music", "tech_innovation", "gaming_esports"} |->
              IF cat = "arts_music" THEN 1200 ELSE 800])}

\* a returning user (no Phase 1 ids) or a new user after Phase 1
Phase2Init ==
  /\ IndexInit
  /\ interactions = <<>>
  /\ user_preferences \in {[u \in Users |-> IF u = "u1" THEN r ELSE NoRow] : r \in Phase2Rows}
  /\ profiles = Users
  /\ events_cache = EmptyMap
  /\ use_pgvector = FALSE
  /\ config = DefaultConfig
  /\ args \in {[op |-> "send_phase2_preference_newsletter", user_id |-> "u1",
                 posts |-> posts, phase1_ids |-> phase1_ids] :
                  <<posts, phase1_ids>> \in
                    UNION {{<<p, sent>> : sent \in {<<>>} \cup send_phase1_random_newsletter(p)} :
                           p \in PostLists}}
  /\ RetryIdle /\ LimiterIdle /\ MailIdle

Phase2Next == SendPhase2PreferenceNewsletter

SpecPhase2 == Phase2Init /\ [][Phase2Next]_vars

\* --------------------------------------------------- PreferenceModel runs
PrefInit ==
  /\ IndexInit
  /\ interactions \in Histories
  /\ user_preferences \in PreferenceTables
  /\ profiles = Users
  /\ events_cache = EmptyMap
  /\ use_pgvector = FALSE
  /\ config = DefaultConfig
  /\ args = NoArgs
  /\ RetryIdle /\ LimiterIdle /\ MailIdle

PrefNext == ComputePreferences \/ EmbedUser

SpecPrefs == PrefInit /\ [][PrefNext]_vars

\* ------------------------------------------------------- Recommender runs
RecInit ==
  /\ IndexInit
  /\ interactions \in RecHistories
  /\ user_preferences \in {[u \in Users |-> IF u = "u1" THEN r ELSE NoRow] : r \in {NoRow, TechRow}}
  /\ profiles = Users
  /\ events_cache = EmptyMap
  /\ use_pgvector \in BOOLEAN
  /\ config \in RecConfigs
  /\ args = NoArgs
  /\ RetryIdle /\ LimiterIdle /\ MailIdle

RecNext == LoadEventIndex \/ GetRecommendations \/ GetBatchRecommendations

SpecRec == RecInit /\ [][RecNext]_vars

\* ------------------------------------------------ _apply_business_rules runs
RulesInit ==
  /\ IndexInit
  /\ interactions = <<>>
  /\ user_preferences = [u \in Users |-> NoRow]
  /\ profiles = Users
  /\ events_cache = EmptyMap
  /\ use_pgvector = FALSE
  /\ config \in RuleConfigs
  /\ RetryIdle /\ LimiterIdle /\ MailIdle
  /\ args \in {[op |-> "apply_business_rules", candidates |-> c, events |-> RuleEvents] :
                c \in RuleCandidates}

RulesNext == ApplyBusinessRules

SpecRules == RulesInit /\ [][RulesNext]_vars

\* ------------------------------------------------------------ Scorer runs
ScoringRows ==
  { [user_id |-> "u1", event_id |-> "e1", interaction_type |-> "like", age |-> 0],
    [user_id |-> "u1", event_id |-> "e2", interaction_type |-> "dislike", age |-> 30],
    [user_id |-> "u2", event_id |-> "e1", interaction_type |-> "click", age |-> 0] }

ScoringInit ==
  /\ IndexInit
  /\ interactions \in UNION {[1..n -> ScoringRows] : n \in 0..MaxHistory}
  /\ user_preferences \in PreferenceTables
  /\ profiles \in {{"u2"}, Users}
  /\ events_cache = EmptyMap
  /\ use_pgvector = FALSE
  /\ config = DefaultConfig
  /\ args = NoArgs
  /\ RetryIdle /\ LimiterIdle /\ MailIdle

ScoringNext == RankEventsForUser \/ UrgencyScore \/ ClusterMatch

SpecScoring == ScoringInit /\ [][ScoringNext]_vars

\* ---------------------------------------------------------- with_retry runs
\* the thread in with_retry keeps running: fn returns or raises, sleep returns
RetryInit ==
  /\ CoreIdle /\ LimiterIdle /\ MailIdle
  /\ args \in {[op |-> "with_retry", fn |-> fn] : fn \in Fns}
  /\ retry = RetryStart

RetryNext == RetryCall \/ RetrySleep

SpecRetry == RetryInit /\ [][RetryNext]_vars /\ WF_vars(RetryNext)

\* ------------------------------------------------------ is_rate_limited runs
RateInit ==
  /\ CoreIdle /\ MailIdle /\ RetryIdle
  /\ args = NoArgs
  /\ clock = 0
  /\ rate_limit_store = EmptyMap
  /\ callers = [t \in Threads |-> IdleCaller]
  /\ admitted = EmptyMap

RateNext == RateEnter \/ RateLocked \/ Tick

SpecRate == RateInit /\ [][RateNext]_vars

\* -------------------------------------------------------- newsletter runs
\* every user has signed up; a user may lack a subscribers or a profiles row
MailInit ==
  /\ IndexInit
  /\ interactions = <<>>
  /\ user_preferences = [u \in Users |-> NoRow]
  /\ profiles \in {{"u1"}, Users}
  /\ events_cache = EmptyMap
  /\ use_pgvector = FALSE
  /\ config = DefaultConfig
  /\ args = NoArgs
  /\ RetryIdle /\ LimiterIdle
  /\ users_table = [u \in Users |-> Subscribed]
  /\ subscribers_table \in {[u \in S |-> Subscribed] : S \in {{"u1"}, Users}}
  /\ profiles_unsub = {}
  /\ opted_out = {}
  /\ UNSUBSCRIBE_TOKEN_SECRET \in Secrets

MailNext == Unsubscribe \/ Subscribe \/ RunTwoPhaseNewsletter \/ SendNewsletters

SpecMail == MailInit /\ [][MailNext]_vars

\* ======================================================= VectorIndex claims
\* rows of the index that exclude_ids leaves in play
Eligible(exclude_ids) == {i \in 1..Len(ids) : ids[i] \notin exclude_ids}

Searched == last.op = "search" /\ ~last.raised

\* C1: search(query, top_k, exclude_ids) returns no entry whose id is in
\* exclude_ids, whatever add/add_batch/remove/clear calls built the index.
C1_SearchExcludes ==
  Searched =>
    \A j \in 1..Len(last.results) : last.results[j].id \notin last.exclude_ids

\* C1 witness: a search that excluded a stored id and still returned entries.
C1_Witness ==
  /\ Searched
  /\ \E i \in 1..Len(ids) : ids[i] \in last.exclude_ids
  /\ Len(last.results) >= 1

\* the result is exactly the m best eligible rows, best first
TopOfEligible(results, query, exclude_ids, m) ==
  /\ Len(results) = m
  /\ \A j \in 1..Len(results) :
       /\ \E i \in Eligible(exclude_ids) :
            /\ results[j].id = ids[i]
            /\ results[j].metadata = metadata[i]
            /\ results[j].score = Cosine(query, vectors[i], norms[i])
       /\ Cardinality({i \in Eligible(exclude_ids) :
              ~ScoreGeq(results[j].score, Cosine(query, vectors[i], norms[i]))}) < j
  /\ \A j, k \in 1..Len(results) :
       j < k => ScoreGeq(results[j].score, results[k].score)

\* C4 (as claimed): for a non-zero query and top_k >= 0, search returns at most
\* top_k entries, in non-increasing order of similarity, and they are the
\* min(top_k, n) best of the n stored entries that are not excluded.
C4_TopKBest ==
  (Searched /\ NormSq(last.query) # 0) =>
    /\ Len(last.results) <= last.top_k
    /\ TopOfEligible(last.results, last.query, last.exclude_ids,
                     Min(last.top_k, Cardinality(Eligible(last.exclude_ids))))

\* C4, top_k >= 1 only: the same statement holds of every such search.
C4_TopKBestPositive ==
  (Searched /\ NormSq(last.query) # 0 /\ last.top_k >= 1) =>
    /\ Len(last.results) <= last.top_k
    /\ TopOfEligible(last.results, last.query, last.exclude_ids,
                     Min(last.top_k, Cardinality(Eligible(last.exclude_ids))))

\* C3 (as claimed): add of an id that is already stored is an update: size()
\* is what it was, and every search hit for that id carries the similarity
\* and the metadata of the vector just added.
C3_AddUpdates ==
  (last.op = "add" /\ ~last.raised /\ last.existed) =>
    /\ size(Index) = last.sizeBefore
    /\ \A query \in {q \in Queries : Len(q) = DIM}, top_k \in TopKs,
          exclude_ids \in SUBSET Ids :
         \A results \in search(Index, query, top_k, exclude_ids) :
           \A j \in 1..Len(results) :
             results[j].id = last.id =>
               /\ results[j].score = Cosine(query, last.vector, NormSq(last.vector))
               /\ results[j].metadata = last.meta

\* C3 on an index whose id list holds no id twice: the update reading holds.
C3_AddUpdatesNoDuplicates ==
  (\A i, j \in 1..Len(ids) : i # j => ids[i] # ids[j]) => C3_AddUpdates

\* C5: add with a vector whose length is not the index dimension raises and
\* leaves ids, vectors, norms, metadata and id_to_idx as they were.
C5_DimensionMismatch ==
  [][(last'.op = "add" /\ Len(last'.vector) # DIM)
       => (last'.raised /\ UNCHANGED ixvars)]_vars

\* C5 witness: a rejected add on an index that already holds a row.
C5_Witness ==
  /\ last.op = "add"
  /\ last.raised
  /\ Len(last.vector) # DIM
  /\ size(Index) >= 1

\* =================================================== PreferenceModel claims
\* the rows of the last call's user, and those of them whose event has category cat
UserRows == SelectEq(interactions, "user_id", last.user_id)

RowsIn(cat) == SelectSeq(UserRows, LAMBDA row : event_categories(row.event_id) = cat)

\* C7: with at least one interaction whose event has a category, the
\* time-decayed preferences give each of the 13 categories a score in [0,1]
\* and the scores sum to 1.
C7_Distribution ==
  (last.op = "prefs" /\ \E cat \in Categories : RowsIn(cat) # <<>>) =>
    /\ DOMAIN last.result = Categories
    /\ Cardinality(Categories) = NUM_CATEGORIES
    /\ \A cat \in Categories :
         RLeq(RZero, last.result[cat]) /\ RLeq(last.result[cat], ROne)
    /\ SumFrom(last.result, 1) = ROne

\* C7 witness: preferences computed from a history that touches two
\* categories, one of them scored off the baseline.
C7_Witness ==
  /\ last.op = "prefs"
  /\ RowsIn("tech_innovation") # <<>>
  /\ RowsIn("arts_music") # <<>>
  /\ last.result["tech_innovation"] # last.result["food_dining"]

\* C8 (as claimed): a category in which every interaction of the user is a
\* dislike gets a time-decayed score of at most the uniform baseline 1/13.
C8_DislikeAtMostBaseline ==
  last.op = "prefs" =>
    \A cat \in Categories :
      (/\ RowsIn(cat) # <<>>
       /\ \A i \in 1..Len(RowsIn(cat)) : RowsIn(cat)[i].interaction_type = "dislike")
      => RLeq(last.result[cat], DEFAULT_CATEGORY_SCORE)

\* C9 (as claimed): a user with interactions whose absolute weights sum to 0
\* gets the cold-start vector, the embedding of the preference text.
C9_ZeroWeightFallsBack ==
  (/\ last.op = "embed_user"
   /\ UserRows # <<>>
   /\ WeightedSum(UserRows, 1, ZeroVec, 0)[2] = 0)
  => /\ last.result.path = "cold"
     /\ last.result.vector = generate_embedding(pref_text(user_preferences[last.user_id]))

\* C10: embed_user returns either the history vector (the weighted sum of the
\* interacted events' embeddings over the sum of absolute weights, the bare
\* sum when that is 0) without calling the Embedding Provider, or the
\* provider's embedding of the preference text; never a mix of the two.
C10_OnePath ==
  last.op = "embed_user" =>
    LET r == last.result
        acc == WeightedSum(UserRows, 1, ZeroVec, 0)
        calls == {r.calls[i] : i \in 1..Len(r.calls)}
    IN \/ /\ r.path = "warm"
          /\ UserRows # <<>>
          /\ "provider" \notin calls
          /\ r.vector.num = acc[1]
          /\ r.vector.den = (IF acc[2] # 0 THEN acc[2] ELSE 1)
       \/ /\ r.path = "cold"
          /\ UserRows = <<>>
          /\ Cardinality({i \in 1..Len(r.calls) : r.calls[i] = "provider"}) = 1
          /\ r.vector = generate_embedding(pref_text(user_preferences[last.user_id]))

\* C10 witness: a warm return with a non-zero weight sum for a user whose
\* preference row would have produced an interest text.
C10_Witness ==
  /\ last.op = "embed_user"
  /\ last.result.path = "warm"
  /\ last.result.vector.den > 1
  /\ user_preferences[last.user_id] = TechRow

ClaimedWeight(row) ==
  (CASE row.interaction_type = "like" -> 8
     [] row.interaction_type = "click" -> 4
     [] row.interaction_type = "dislike" -> -4
     [] OTHER -> 0) \div (IF row.age = 0 THEN 1 ELSE 2)

\* the rows whose event has an embedding of DIM components
Retrievable(rows) ==
  {i \in 1..Len(rows) :
     \E j \in 1..Len(event_embeddings) :
       /\ event_embeddings[j].event_id = rows[i].event_id
       /\ Len(event_embeddings[j].embedding) = DIM}

EmbeddingOf(event_id) ==
  event_embeddings[CHOOSE j \in 1..Len(event_embeddings) :
                     event_embeddings[j].event_id = event_id].embedding

RECURSIVE SumOver(_, _, _)
\* the sum of f[i] over the members i of S
SumOver(S, f, n) ==
  IF n = 0 THEN 0
  ELSE (IF n \in S THEN f[n] ELSE 0) + SumOver(S, f, n - 1)

\* C12: when the absolute weights of the interactions with a retrievable
\* embedding do not sum to 0, the warm vector is (sum of w_i e_i) / (sum of
\* |w_i|) over exactly those interactions.
C12_WeightedAverage ==
  last.op = "embed_user" =>
    LET rows == UserRows
        S == Retrievable(rows)
        den == SumOver(S, [i \in 1..Len(rows) |-> Abs(ClaimedWeight(rows[i]))], Len(rows))
    IN (rows # <<>> /\ den # 0) =>
         /\ last.result.path = "warm"
         /\ last.result.vector.den > 0
         /\ \A k \in 1..DIM :
              LET num == SumOver(S, [i \in 1..Len(rows) |->
                                       IF i \in S
                                       THEN ClaimedWeight(rows[i]) * EmbeddingOf(rows[i].event_id)[k]
                                       ELSE 0], Len(rows))
              IN last.result.vector.num[k] * den = num * last.result.vector.den

\* C12 witness: like e1 = [1,0] and dislike e2 = [0,1] at age 0 give [2/3, -1/3].
C12_Witness ==
  /\ last.op = "embed_user"
  /\ interactions =
       << [user_id |-> "u1", event_id |-> "e1", interaction_type |-> "like", age |-> 0],
          [user_id |-> "u1", event_id |-> "e2", interaction_type |-> "dislike", age |-> 0] >>
  /\ last.user_id = "u1"
  /\ 3 * last.result.vector.num[1] = 2 * last.result.vector.den
  /\ 3 * last.result.vector.num[2] = -1 * last.result.vector.den

\* C12 witness of the second half: a row on an event without a usable
\* embedding next to a row that has one.
C12_MissingSkipped ==
  /\ last.op = "embed_user"
  /\ Len(UserRows) = 2
  /\ Cardinality(Retrievable(UserRows)) = 1
  /\ last.result.vector.den > 1

\* ====================================================== Recommender claims
\* the events a user has an interaction row for
Interacted(user_id) ==
  {interactions[i].event_id :
     i \in {j \in 1..Len(interactions) : interactions[j].user_id = user_id}}

\* C2 (as claimed): the list get_recommendations(user_id) returns holds no
\* event the user has already interacted with, on the pgvector path and on
\* the in-memory path alike.
C2_NoInteractedEvent ==
  (last.op = "get_recommendations" /\ ~last.raised) =>
    \A i \in 1..Len(last.recs) : last.recs[i].event_id \notin Interacted(last.user_id)

\* a finished batch b started in recommender state st: one entry per user,
\* [] for each user whose call raised, and for every other user a list that
\* get_recommendations returns for that user alone from st
BatchIsolated(b, st) ==
  /\ DOMAIN b.results = Range(b.user_ids)
  /\ \A i \in 1..Len(b.user_ids) :
       LET uid == b.user_ids[i]
       IN IF uid \in b.failed THEN b.results[uid] = <<>>
          ELSE \E f \in {"none", b.faults[i]} :
                 \E out \in get_recommendations(st, uid, f) :
                   ~out.raised /\ out.recs = b.results[uid]

\* C6 (as claimed): get_batch_recommendations never raises; its map has one
\* entry per user id, [] for each user whose computation raised and, for
\* every other user, the list get_recommendations returns for that user.
C6_BatchIsolation ==
  [][last'.op = "get_batch_recommendations" =>
       (~last'.raised /\ BatchIsolated(last', State))]_vars

\* C6 for the batches that get past the load before the loop: the isolation
\* of the loop itself holds.
C6_LoopIsolation ==
  [][(last'.op = "get_batch_recommendations" /\ ~last'.raised) =>
       BatchIsolated(last', State)]_vars

\* ============================================= _apply_business_rules claims
RulesApplied == last.op = "apply_business_rules"

EventIds(result) == [i \in 1..Len(result) |-> result[i].event_id]

\* two candidates alike in similarity, recency and category
Alike(c, d, event_map) ==
  /\ c.score = d.score
  /\ c.id \in DOMAIN event_map /\ d.id \in DOMAIN event_map
  /\ event_map[c.id].event_date # <<>>
  /\ event_map[c.id].event_date = event_map[d.id].event_date
  /\ event_map[c.id].category = event_map[d.id].category

\* C13 (as claimed): reordering candidates that are alike in similarity,
\* recency and category does not change the order of the event ids that
\* _apply_business_rules returns.
C13_OrderIndependent ==
  RulesApplied =>
    \A p \in Perms(1..Len(last.candidates)) :
      (\A i \in 1..Len(last.candidates) :
         p[i] # i => Alike(last.candidates[i], last.candidates[p[i]], last.events))
      => EventIds(apply_business_rules([i \in 1..Len(last.candidates) |-> last.candidates[p[i]]],
                                        last.events))
           = EventIds(last.result)

\* the position in the input of the candidate an entry was made from
InputPos(candidates, event_id) == CHOOSE i \in 1..Len(candidates) : candidates[i].id = event_id

\* the candidates before position pos that were not dropped and share the category
SameCategoryBefore(candidates, result, pos, category) ==
  {j \in 1..(pos - 1) :
     \E k \in 1..Len(result) :
       result[k].event_id = candidates[j].id /\ result[k].category = category}

\* what an entry was charged, in ten-thousandths: the weighted similarity and
\* recency less the final score
Charged(r) ==
  Milli(r.similarity_score) * config.similarity_weight
    + r.recency_score * config.recency_weight - r.final_score

\* C14: every entry is charged diversity_penalty times the number of
\* candidates of its category processed and not dropped before it; the first
\* of a category is charged 0 and, for a positive penalty, the third more
\* than the second.
C14_DiversityPenalty ==
  RulesApplied =>
    \A k \in 1..Len(last.result) :
      LET r == last.result[k]
          before == SameCategoryBefore(last.candidates, last.result,
                                       InputPos(last.candidates, r.event_id), r.category)
      IN /\ Charged(r) = config.diversity_penalty * 1000 * Cardinality(before)
         /\ before = {} => Charged(r) = 0
         /\ config.diversity_penalty > 0 =>
              \A m \in 1..Len(last.result) :
                LET q == last.result[m]
                    beforeq == SameCategoryBefore(last.candidates, last.result,
                                                  InputPos(last.candidates, q.event_id),
                                                  q.category)
                IN (q.category = r.category /\ Cardinality(before) = 2
                      /\ Cardinality(beforeq) = 1)
                   => Charged(r) > Charged(q)

\* C14 witness: three kept candidates of one category under a positive
\* penalty.
C14_Witness ==
  /\ RulesApplied
  /\ config.diversity_penalty > 0
  /\ Len(last.result) = 3
  /\ \E k \in 1..Len(last.result) : Charged(last.result[k]) = 2 * config.diversity_penalty * 1000

\* C14 witness of the dropped case: a dateless candidate ahead of a kept one
\* of its category, which is still charged 0.
C14_DroppedNotCounted ==
  /\ RulesApplied
  /\ Len(last.candidates) >= 2
  /\ last.candidates[1].id = "c4"
  /\ last.candidates[2].id = "c1"
  /\ \E k \in 1..Len(last.result) :
       last.result[k].event_id = "c1" /\ Charged(last.result[k]) = 0

\* ================================================ get_recommendations claims
\* C15: the list get_recommendations returns has at most top_k entries, in
\* non-increasing order of final_score, each final_score being the weighted
\* similarity plus the weighted recency less a diversity penalty.
C15_TopKSorted ==
  (last.op = "get_recommendations" /\ ~last.raised) =>
    /\ Len(last.recs) <= config.top_k
    /\ \A i \in 1..(Len(last.recs) - 1) :
         last.recs[i].final_score >= last.recs[i + 1].final_score
    /\ \A i \in 1..Len(last.recs) :
         \E seen \in 0..Cardinality(Events) :
           last.recs[i].final_score =
             Milli(last.recs[i].similarity_score) * config.similarity_weight
               + last.recs[i].recency_score * config.recency_weight
               - seen * config.diversity_penalty * 1000

\* C15 witness: two recommendations, the first with the higher final score
\* owed to its recency alone.
C15_Witness ==
  /\ last.op = "get_recommendations" /\ ~last.raised
  /\ Len(last.recs) = 2
  /\ last.recs[1].final_score > last.recs[2].final_score
  /\ last.recs[1].similarity_score = last.recs[2].similarity_score

\* C15 witness of the cut: top_k = 1 with two dated events in the cache.
C15_Truncated ==
  /\ last.op = "get_recommendations" /\ ~last.raised
  /\ config.top_k = 1
  /\ Len(last.recs) = 1
  /\ {"e1", "e2"} \subseteq DOMAIN events_cache

C16_NoProfile ==
  /\ last.op = "rank_events_for_user"
  /\ last.user_id \notin profiles
  /\ last.result.error = "User not found"

\* the date _urgency_score goes by: event_date, or timestamp when that is
\* None or empty
UrgencyDate(event) ==
  IF event.event_date.kind \in {"none", "empty"} THEN event.timestamp ELSE event.event_date

Transient(outcome) ==
  outcome.kind = "raise" /\ outcome.what \in Exceptions \ NON_RETRYABLE

\* what holds of with_retry at every moment
C18_Safe ==
  retry.pc # "idle" =>
    LET fn == args.fn
        n == retry.calls
    IN /\ n <= 3
       /\ \A j \in 1..(n - 1) : Transient(fn[j])
       /\ Len(retry.sleeps) <= n
       /\ (n >= 1 /\ fn[n].kind = "return") =>
            (retry.pc = "done" /\ retry.result = fn[n])
       /\ (n >= 1 /\ fn[n].kind = "raise"
             /\ fn[n].what \in {"AuthenticationError", "BadRequestError"}) =>
            (retry.pc = "done" /\ retry.result = fn[n])
       /\ (n = 3 /\ Transient(fn[3])) => (retry.pc = "done" /\ retry.result = fn[3])
       /\ retry.pc = "done" => Len(retry.sleeps) = n - 1

\* C18: with_retry calls fn at most 3 times and terminates; it returns the
\* first value fn returns, lets an AuthenticationError or BadRequestError
\* through with no further call, raises the last exception after 3
\* transient failures, and waits only between attempts.
C18_Retry == []C18_Safe /\ <>(retry.pc = "done")

\* C18 witness: three transient failures, two waits, the third exception raised.
C18_Witness ==
  /\ retry.pc = "done"
  /\ retry.calls = 3
  /\ retry.sleeps = <<1, 2>>
  /\ retry.result = [kind |-> "raise", what |-> "RateLimitError"]
  /\ args.fn[1].what = "ConnectionError"

\* =================================================== is_rate_limited claims
\* the admitted calls of a user whose timestamps lie in [start, start + 60)
AdmittedIn(user_id, start) ==
  {i \in 1..Len(admitted[user_id]) :
     /\ start <= admitted[user_id][i]
     /\ admitted[user_id][i] < start + RATE_LIMIT_WINDOW_SECONDS}

\* C19 (as claimed): for each user, whatever the interleaving of the calls,
\* at most 30 admitted calls have their timestamps inside one window of 60 s.
C19_WindowLimit ==
  \A user_id \in DOMAIN admitted :
    \A start \in Range(admitted[user_id]) :
      Cardinality(AdmittedIn(user_id, start)) <= RATE_LIMIT_MAX_REQUESTS

\* ======================================================== newsletter claims
\* C20 (as claimed): once an unsubscribe request of a user has completed
\* successfully, no newsletter run mails that user until the user
\* subscribes again.
C20_NoMailAfterUnsubscribe ==
  [][last'.op \in {"run_two_phase_newsletter", "send_newsletters"}
       => last'.sent_to \cap opted_out = {}]_vars

\* ============================================ VectorIndex claims, continued
\* a similarity that is a number
FiniteScore(score) == score \notin {NaNScore, PosInf, NegInf}

\* C21 (as claimed): search returns no entry whose similarity is nan or
\* infinite, also when the query or a stored vector holds nan or inf.
C21_FiniteScores ==
  Searched => \A j \in 1..Len(last.results) : FiniteScore(last.results[j].score)

\* no id sits in two rows
UniqueIds == \A i, j \in 1..Len(ids) : i # j => ids[i] # ids[j]

\* the row of a stored id (ids are appended, so rows are in insertion order)
RowOf(vector_id) == CHOOSE i \in 1..Len(ids) : ids[i] = vector_id

\* C22 (as claimed): entries of equal similarity come back in the order in
\* which their ids were inserted, and when top_k cuts through a group of
\* equal similarities the earlier-inserted entries are the ones kept.  Stated
\* on indexes that hold no id twice and for top_k >= 1.
C22_TiesByInsertion ==
  (Searched /\ UniqueIds /\ NormSq(last.query) # 0 /\ last.top_k >= 1) =>
    LET results == last.results
        scores == Scores(Index, last.query, last.exclude_ids)
    IN /\ \A j, k \in 1..Len(results) :
            (j < k /\ ScoreEq(results[j].score, results[k].score))
              => RowOf(results[j].id) < RowOf(results[k].id)
       /\ \A k \in 1..Len(results) :
            \A i \in Eligible(last.exclude_ids) :
              (ScoreEq(scores[i], results[k].score)
                 /\ \A j \in 1..Len(results) : results[j].id # ids[i])
                => RowOf(results[k].id) < i

\* C28 (as claimed): after any add, add_batch, remove and clear calls the id
\* list, the metadata list, the matrix rows and the norm array have one
\* length, each stored id appears once, size() is the number of distinct
\* stored ids, and _id_to_idx maps every stored id to its own row.
C28_IndexConsistent ==
  /\ Len(metadata) = Len(ids)
  /\ Len(vectors) = Len(ids)
  /\ Len(norms) = Len(ids)
  /\ UniqueIds
  /\ size(Index) = Cardinality(Range(ids))
  /\ DOMAIN id_to_idx = Range(ids)
  /\ \A vector_id \in DOMAIN id_to_idx :
       /\ id_to_idx[vector_id] \in 1..Len(ids)
       /\ ids[id_to_idx[vector_id]] = vector_id
       /\ norms[id_to_idx[vector_id]] = NormSq(vectors[id_to_idx[vector_id]])

\* C28 without add_batch: the steps of add, remove and clear keep the index
\* consistent.
C28_ConsistentBarBatch ==
  [][(C28_IndexConsistent /\ last'.op # "add_batch") => C28_IndexConsistent']_vars

\* ================================================ load_event_index claims
\* the claim's reading of a row that is loaded: its embedding is, or parses
\* to, a list of DIM components
Loadable(row) ==
  \/ row.stored_as = "list" /\ Len(row.embedding) = DIM
  \/ /\ row.stored_as = "str"
     /\ ~JsonLoads(row.text).raised
     /\ JsonLoads(row.text).is_list
     /\ Len(JsonLoads(row.text).value) = DIM

\* the vector of a loadable row
LoadedVector(row) == IF row.stored_as = "list" THEN row.embedding ELSE JsonLoads(row.text).value

LoadReturned == last.op = "load_event_index" /\ ~last.raised

StoredNumeric(prefs, category) ==
  category \in DOMAIN prefs.scores /\ prefs.scores[category] # Unset

\* C24: for an event with a category _cluster_match returns the decayed score
\* of the category when decayed_prefs has one, else the stored preference
\* when it is a number, else 1/13; an event without a category gets 1/13.
C24_ClusterMatch ==
  last.op = "_cluster_match" =>
    LET category == last.event.category
        has_category == category \notin {None, ""}
        decayed == has_category /\ category \in DOMAIN last.decayed_prefs
        stored == has_category /\ ~decayed /\ StoredNumeric(last.prefs, category)
    IN /\ ~has_category => last.result = Rat(1, 13)
       /\ decayed => last.result = last.decayed_prefs[category]
       /\ stored => last.result = Rat(last.prefs.scores[category], SCORE_SCALE)
       /\ (has_category /\ ~decayed /\ ~stored) => last.result = Rat(1, 13)

\* C24 witness: a call that fell back to the stored preference 0.7 although
\* decayed_prefs had a score (for another category).
C24_Witness ==
  /\ last.op = "_cluster_match"
  /\ last.event.category = "tech_innovation"
  /\ DOMAIN last.decayed_prefs = {"arts_music"}
  /\ last.prefs = TechRow
  /\ last.result = Rat(7, 10)

\* reached as well: the decayed score 0 is preferred to the stored 0.7
C24_DecayedPreferred ==
  /\ last.op = "_cluster_match"
  /\ last.event.category = "tech_innovation"
  /\ last.prefs = TechRow
  /\ last.result = Rat(0, 1)

\* ========================================================= api/feedback claims
\* a step that ends the request of thread t with the write of store_interaction
WriteStep(t) == callers[t].pc = "write" /\ callers'[t].pc = "idle"

\* the sent timestamp of a request in flight is more than 15 days old
OlderThanDecay(sent) ==
  sent.kind \in {"aware", "naive"} /\ sent.age > PREFERENCE_DECAY_DAYS

\* C25: a valid request that was not rate-limited and whose sent timestamp is
\* more than PREFERENCE_DECAY_DAYS days old stores the interaction and leaves
\* user_preferences unchanged; with sent absent, unparsable or at most 15
\* days old the handler stores the interaction and applies update_preferences
\* for the given category.
C25_DecayWindow ==
  [][\A t \in Threads :
       WriteStep(t) =>
         LET r == callers[t]
         IN /\ interactions' \in
                 StoreWrite(interactions, r.existing, r.user_id, r.event_id, r.action)
            /\ user_preferences' =
                 IF OlderThanDecay(r.sent) THEN user_preferences
                 ELSE update_preferences(user_preferences, r.user_id, r.category, r.action)]_vars

\* the same with the first case narrowed to timestamps that carry a UTC
\* offset, and one without an offset counted with the unparsable ones
C25_DecayWindowAware ==
  [][\A t \in Threads :
       WriteStep(t) =>
         LET r == callers[t]
         IN /\ interactions' \in
                 StoreWrite(interactions, r.existing, r.user_id, r.event_id, r.action)
            /\ user_preferences' =
                 IF OlderThanDecay(r.sent) /\ r.sent.kind = "aware" THEN user_preferences
                 ELSE update_preferences(user_preferences, r.user_id, r.category, r.action)]_vars

\* a request with an old timestamp that carries an offset has been stored
C25_SkippedUpdate ==
  /\ last.op = "do_GET" /\ last.status = 302 /\ last.location = ""
  /\ last.sent = [kind |-> "aware", age |-> 16]
  /\ last.category = "tech_innovation"
  /\ user_preferences[last.user_id] = last.before
  /\ \E i \in 1..Len(interactions) : interactions[i].user_id = "u1"

\* C27: from a row whose scores lie in [0, 1], or from no row, every score
\* stored for a user lies in [0, 1] after any sequence of like, dislike and
\* click updates by update_preferences (a column that holds no number is no
\* score).
C27_ScoresInUnitRange ==
  \A u \in Users, cat \in Categories :
    user_preferences[u].exists =>
      \/ user_preferences[u].scores[cat] = Unset
      \/ (0 <= user_preferences[u].scores[cat] /\ user_preferences[u].scores[cat] <= SCORE_SCALE)

\* a like on a score of 1.0 has been applied, and a dislike on a score of 0
C27_Witness ==
  /\ last.op = "do_GET" /\ last.status = 302 /\ last.location = ""
  /\ last.category = "tech_innovation"
  /\ is_within_decay_window(validate_timestamp(last.sent))
  /\ last.before.exists
  /\ \/ last.action = "like" /\ last.before.scores["tech_innovation"] = SCORE_SCALE
     \/ last.action = "dislike" /\ last.before.scores["tech_innovation"] = 0
  /\ user_preferences[last.user_id] = last.before

\* a first like has created the row of a user: 1/13 + 0.1
C27_RowCreated ==
  /\ last.op = "do_GET" /\ last.status = 302 /\ last.location = ""
  /\ ~last.before.exists /\ last.action = "like"
  /\ user_preferences[last.user_id].exists
  /\ user_preferences[last.user_id].scores["tech_innovation"] = 230

\* the table holds at most one row for every pair of user and event
UniquePairs(table) ==
  \A i, j \in 1..Len(table) :
    (table[i].user_id = table[j].user_id /\ table[i].event_id = table[j].event_id) => i = j

\* C29: store_interaction never leaves more than one interactions row for a
\* pair (user_id, event_id), also when two requests for the pair are handled
\* concurrently.
C29_OneRowPerPair == UniquePairs(interactions)

\* the same for a write whose select still describes the table: no other
\* request has written a row for the pair in between
C29_OneRowWhenSerial ==
  [][\A t \in Threads :
       (/\ WriteStep(t) /\ UniquePairs(interactions)
        /\ callers[t].existing \in
              Existing(interactions, callers[t].user_id, callers[t].event_id))
       => UniquePairs(interactions')]_vars

\* a repeated request has changed the interaction_type of the row of its pair
C29_RowUpdated ==
  /\ Len(interactions) = 2
  /\ interactions[2].user_id = "u1" /\ interactions[2].interaction_type = "dislike"
  /\ last.op = "do_GET" /\ last.status = 302 /\ last.location = "" /\ last.action = "dislike"
  /\ Len(StoreOf(admitted, "u1")) = 2

\* ====================================================== api/unsubscribe claims
\* the request carries a uid, the secret is configured and the token is the
\* HMAC-SHA256 of the uid under that secret
TokenMatches(user_id, token) ==
  /\ user_id # "" /\ token # ""
  /\ UNSUBSCRIBE_TOKEN_SECRET # ""
  /\ token = _expected_token(user_id, UNSUBSCRIBE_TOKEN_SECRET)

\* C26: the unsubscribe handler writes is_unsubscribed to subscribers and
\* profiles only when the secret is configured and the token is the
\* HMAC-SHA256 of the uid under it; a missing uid ends the request with 400,
\* a missing secret with 500, a missing token or one computed for another
\* uid or secret with 403, and none of them writes a table.
C26_TokenGuardsWrite ==
  [][last'.op = "unsubscribe" =>
       /\ (subscribers_table' # subscribers_table \/ profiles_unsub' # profiles_unsub)
            => TokenMatches(last'.user_id, last'.token)
       /\ ~TokenMatches(last'.user_id, last'.token) =>
            /\ UNCHANGED <<subscribers_table, profiles_unsub, users_table>>
            /\ last'.status =
                 IF last'.user_id = "" THEN 400
                 ELSE IF UNSUBSCRIBE_TOKEN_SECRET = "" THEN 500 ELSE 403]_vars

\* a request with the token of its uid has unsubscribed u2 in both tables
C26_Witness ==
  /\ last.op = "unsubscribe" /\ last.status = 200 /\ last.user_id = "u2"
  /\ last.token = _expected_token("u2", UNSUBSCRIBE_TOKEN_SECRET)
  /\ "u2" \in DOMAIN subscribers_table /\ subscribers_table["u2"].is_unsubscribed
  /\ "u2" \in profiles_unsub

\* a request for u2 with the token of u1 has been refused
C26_OtherUsersToken ==
  /\ last.op = "unsubscribe" /\ last.status = 403 /\ last.user_id = "u2"
  /\ last.token = _expected_token("u1", UNSUBSCRIBE_TOKEN_SECRET)
  /\ "u2" \notin profiles_unsub

\* ================================================== Phase 2 newsletter claims
\* the call has built a newsletter
Phase2Built == last.op = "send_phase2_preference_newsletter" /\ last.categories # <<>>

\* C30: for every list of events, preference state and Phase 1 selection,
\* the Phase 2 newsletter holds at most 9 events, no event id sent in
\* Phase 1 and no event id twice, over its category, exploration and top-up
\* picks.
C30_Phase2Selection ==
  Phase2Built =>
    /\ Len(last.selected_events) <= DEFAULT_PHASE2_TOTAL
    /\ \A j \in 1..Len(last.selected_events) :
         last.selected_events[j].event_id \notin Range(args.phase1_ids)
    /\ \A j, k \in 1..Len(last.selected_events) :
         last.selected_events[j].event_id = last.selected_events[k].event_id => j = k

\* a new user: Phase 1 sent 9 of 11 events and Phase 2 holds the other two
C30_Witness ==
  /\ Phase2Built
  /\ Len(args.posts) = 11 /\ Len(args.phase1_ids) = 9
  /\ Len(last.selected_events) = 2

\* a returning user: 9 of 11 events, with category, exploration and top-up picks
C30_FullNewsletter ==
  /\ Phase2Built
  /\ Len(args.posts) = 11 /\ args.phase1_ids = <<>>
  /\ Len(last.selected_events) = DEFAULT_PHASE2_TOTAL
  /\ last.selected_events[1].category = last.categories[1]
  /\ \E j \in 1..9 : last.selected_events[j].is_exploration
  /\ ~last.selected_events[9].is_exploration
  /\ last.selected_events[9].category \notin Range(last.categories)

====
